---- MODULE Spec2Model ----
(***************************************************************************)
(* Micro Calabozos y Chatbots: the provider connector (api_connectors.py)  *)
(* and the game built on it (micro_rpg_chatbot-v2.py).                     *)
(*                                                                         *)
(* Texts are sequences of tokens.  A token is one of the characters the    *)
(* tag pattern looks at ("[", "]", ":", " ", "-", a digit), a tag name, or *)
(* an opaque word holding none of those characters.  String literals are   *)
(* written in ASCII: the N of "DANO" and the o of "pocion" stand for the   *)
(* source's accented letters.                                              *)
(***************************************************************************)
EXTENDS Integers, Sequences, FiniteSets, TLC

VARIABLES
    environ,                \* the API keys in os.environ, and the providers whose probe succeeds
    providers,              \* self.providers[p]["configured"], per provider
    active_providers_list,  \* self.active_providers_list
    provider_cycler,        \* position of itertools.cycle in the active list
    threads,                \* the running invocations of query / generation_task
    selLog,                 \* history: one entry per call that entered query
    ended,                  \* history: the ways the calls so far have ended
    connector,              \* the game's global: TRUE for an instance, FALSE for None
    player_stats,
    player_inventory,
    game_context,
    game_over,
    input_state,            \* state of input_entry and send_button
    entry,                  \* the text in input_entry
    gui_queue,
    save_file,              \* rpg_save.json
    ui,                     \* where the main thread is
    dispatched,             \* history: calls of ask_dm_ai
    handled,                \* history: callbacks run by process_gui_queue
    saves                   \* history: /guardar commands

connVars == <<environ, providers, active_providers_list, provider_cycler>>
gameVars == <<player_stats, player_inventory, game_context, game_over, input_state>>
uiVars == <<connector, entry, gui_queue, save_file, ui, dispatched, handled, saves>>
vars == <<environ, providers, active_providers_list, provider_cycler, threads, selLog, ended,
          connector, player_stats, player_inventory, game_context, game_over,
          input_state, entry, gui_queue, save_file, ui, dispatched, handled, saves>>

----------------------------------------------------------------------------
(* Bounds of the model *)

\* number of calls to query (queries dispatched) in one behaviour
MaxCalls == 4

\* number of those calls that name a specific_provider
MaxPinned == 2

\* number of queries the game dispatches (calls of ask_dm_ai) in one behaviour
MaxQueries == 2

\* the player acts only when at most this many messages wait in gui_queue
\* (the queue is drained every 100 ms)
MaxBacklog == 1

\* number of times the player saves the game in one behaviour
MaxSaves == 1

\* number of pieces a response text is put together from
MaxPieces == 3

\* number of level-ups behind the player when a response arrives
MaxLevelUps == 2

\* number of entries in the inventory when the player types a command
MaxItems == 3

\* number of entries in the history when the player types a command
MaxHistory == 27

----------------------------------------------------------------------------
(* HybridAIConnector: construction *)

max_retries == 3

\* keys of self.providers, in the dict's insertion order
ProviderOrder == <<"gemini", "deepseek", "openai">>

Providers == {ProviderOrder[i] : i \in 1..Len(ProviderOrder)}

\* a provider name that is no key of self.providers
UnknownProvider == "claude"

\* specific_provider values: None, a key of self.providers, or any other string
NoPin == "none"

Pins == {NoPin, UnknownProvider} \cup Providers

\* fault: a provider with a key is configured whatever its probe gives
KeyIsEnough(p, creds, probes) == p \in creds

\* _configure_gemini / _configure_deepseek / _configure_openai: configured
\* becomes True only when the credential is present and the probe call succeeds
ConfigureProvider(p, creds, probes) == p \in creds /\ p \in probes

\* configure_providers: the list comprehension over self.providers.items()
ActiveList(cfg) == SelectSeq(ProviderOrder, LAMBDA p : cfg[p])

\* what configure_providers meets: the providers whose API key os.getenv
\* finds, and the providers whose probe call succeeds
Environment(keys, probe_ok) == [keys |-> keys, probe_ok |-> probe_ok]

\* __init__ before configure_providers runs
Unconfigured == [p \in Providers |-> FALSE]

\* __init__: configure_providers, _validate_initial_config, _setup_provider_rotation
ConnectorInit(creds, probes) ==
    LET cfg == [p \in Providers |-> ConfigureProvider(p, creds, probes)]
    IN  /\ providers' = cfg
        /\ active_providers_list' = ActiveList(cfg)
        /\ provider_cycler' = 0

----------------------------------------------------------------------------
(* Texts *)

\* a plain string: its tokens
Text(body) == [json |-> FALSE, body |-> body, error |-> <<>>]

\* fault: the fallback given as a plain string, not as JSON
PlainFallback(error) == [json |-> FALSE, body |-> error, error |-> <<>>]

\* _fallback_response: json.dumps of an object whose "error" field is the reason
\* (the message, the truncated prompt and the hints are the same in every payload)
_fallback_response(error) == [json |-> TRUE, body |-> <<>>, error |-> error]

\* what the providers answer when they answer with text
Responses ==
    { <<"Entras", " ", "en", " ", "la", " ", "cueva">>,
      <<"Un", " ", "golpe", " ", "[", "DANO", ":", " ", "2", "0", "]">>,
      <<"[", "ITEM", ":", " ", "Pocion", "]", " ", "[", "dano", ":", "6", "]",
        " ", "[", "XP", ":", "1", "5", "0", "]">>,
      <<"Descansas", " ", "[", "Cura", ":", "8", "]">> }

----------------------------------------------------------------------------
(* One attempt against a provider *)

\* what the network and the provider can do to one request: an answer with
\* text, an answer of the right shape with no content ("empty"), an answer cut
\* by the content filter ("filtered"), an answer whose body is JSON of another
\* shape ("malformed"), or an exception of the request
RawKinds ==
    {"text", "empty", "filtered", "malformed",
     "Timeout", "RequestException", "APIConnectionError", "Exception"}

RawOutcomes ==
    {[kind |-> "text", body |-> r] : r \in Responses}
    \cup {[kind |-> k, body |-> <<>>] : k \in RawKinds \ {"text"}}

Returns(text) == [raised |-> FALSE, text |-> text, exc |-> "none"]

Raises(exc) == [raised |-> TRUE, text |-> Text(<<>>), exc |-> exc]

\* _query_gemini: no parts gives the placeholder, every exception is re-raised;
\* the client library reads the body: what it makes of a body of another shape
\* is one of the other kinds, here the response without parts
_query_gemini(raw) ==
    CASE raw.kind = "text" -> Returns(Text(raw.body))
      [] raw.kind \in {"empty", "filtered", "malformed"} ->
            Returns(Text(<<"[", "Respuesta bloqueada por seguridad o vacia", "]">>))
      [] OTHER -> Raises(raw.kind)

\* fault: a response without content raises instead of giving the placeholder
NoContentRaises(raw) ==
    CASE raw.kind = "text" -> Returns(Text(raw.body))
      [] raw.kind \in {"empty", "filtered", "malformed"} -> Raises("ValueError")
      [] OTHER -> Raises(raw.kind)

\* _query_deepseek: no content gives the placeholder, exceptions propagate;
\* the method reads the body itself, and data.get or data["choices"][0].get
\* raises AttributeError, KeyError or TypeError on a body of another shape
_query_deepseek(raw) ==
    CASE raw.kind = "text" -> Returns(Text(raw.body))
      [] raw.kind \in {"empty", "filtered"} ->
            Returns(Text(<<"[", "Respuesta invalida o vacia", "]">>))
      [] raw.kind = "malformed" -> Raises("AttributeError")
      [] OTHER -> Raises(raw.kind)

\* _query_openai: placeholders for no content; APIConnectionError is re-raised
\* as requests.exceptions.RequestException, the rest as it is
_query_openai(raw) ==
    CASE raw.kind = "text" -> Returns(Text(raw.body))
      [] raw.kind = "filtered" ->
            Returns(Text(<<"[", "Respuesta bloqueada por filtro de contenido", "]">>))
      [] raw.kind \in {"empty", "malformed"} ->
            Returns(Text(<<"[", "Respuesta invalida o vacia", "]">>))
      [] raw.kind = "APIConnectionError" -> Raises("RequestException")
      [] OTHER -> Raises(raw.kind)

\* query, the if/elif chain that dispatches on provider_to_use
DispatchProvider(provider, raw) ==
    CASE provider = "gemini" -> _query_gemini(raw)
      [] provider = "deepseek" -> _query_deepseek(raw)
      [] provider = "openai" -> _query_openai(raw)
      [] OTHER -> Raises("ValueError")

\* query, the except clauses in their order: Timeout, RequestException, Exception
ExceptStatus(exc) ==
    CASE exc = "Timeout" -> "timeout"
      [] exc = "RequestException" -> "error_network"
      [] OTHER -> "error_provider"

\* fault: the last except clause without its break
NeverBreaks(status) == FALSE

\* query: only the last except clause ends with break
BreaksRetryLoop(status) == status = "error_provider"

\* the names api_connectors.py binds at module level with import
ModuleImports ==
    {"os", "json", "requests", "genai", "openai", "Path", "Tuple", "Optional",
     "Dict", "Any", "List", "logging", "load_dotenv", "time", "itertools"}

\* _handle_retry_delay reads self.retry_delay, random.uniform and time.sleep:
\* a module-level name that is not bound raises NameError when it is read
_handle_retry_delay_raises == \E name \in {"random", "time"} : name \notin ModuleImports

----------------------------------------------------------------------------
(* query *)

\* query: the first test, "if not self.active_providers_list"
DisabledMode(list) == list = <<>>

\* how a frame that has left query left it
Ending(f) ==
    CASE f.pc = "raised" -> {"raised"}
      [] f.pc = "returned" -> {f.status}
      [] OTHER -> {}

\* fault: specific_provider ignored, every call rotates
PinIgnored(pin, cfg) == FALSE

\* query: a pinned provider is used when it is a key of self.providers and configured
UsesPinned(pin, cfg) == pin # NoPin /\ pin \in Providers /\ cfg[pin]

\* fault: the first active provider whatever the cycler says
FirstProvider(list, pos) == IF list # <<>> THEN list[1] ELSE "none"

\* fault: the rotation runs over every key of self.providers
RotatesOverAllProviders(list, pos) == IF list # <<>> THEN ProviderOrder[pos + 1] ELSE "none"

\* _get_next_provider: next(self.provider_cycler), or None without a cycler
_get_next_provider(list, pos) == IF list # <<>> THEN list[pos + 1] ELSE "none"

\* fault: a cycler that next() does not advance
CyclerStuck(list, pos) == pos

\* itertools.cycle: the position after one next()
CyclerAfterNext(list, pos) == IF list # <<>> THEN (pos + 1) % Len(list) ELSE pos

\* the frame of a call that has not run yet
NewFrame(pc, pin) ==
    [pc |-> pc, pin |-> pin, provider |-> "none", attempt |-> 0, status |-> "error",
     text |-> Text(<<>>), outcomes |-> <<>>, tried |-> <<>>, raws |-> <<>>,
     waits |-> 0, result |-> <<>>]

FallbackReason(provider, status) ==
    <<"Fallaron todos los intentos con", provider, status>>

\* query up to the retry loop: the disabled mode and the choice of the provider
QueryEnter(i) ==
    /\ i \in 1..Len(threads)
    /\ threads[i].pc = "enter"
    /\ LET f == threads[i]
           pinned == UsesPinned(f.pin, providers)
           chosen == IF pinned THEN f.pin
                     ELSE _get_next_provider(active_providers_list, provider_cycler)
       IN  IF DisabledMode(active_providers_list)
           THEN /\ threads' = [threads EXCEPT ![i] =
                        [f EXCEPT !.pc = "returned", !.status = "error",
                                  !.text = _fallback_response(<<"No hay proveedores configurados">>)]]
                /\ selLog' = Append(selLog, [pin |-> f.pin, provider |-> "none", rotated |-> FALSE])
                /\ UNCHANGED provider_cycler
           ELSE /\ provider_cycler' = IF pinned THEN provider_cycler
                                      ELSE CyclerAfterNext(active_providers_list, provider_cycler)
                /\ selLog' = Append(selLog, [pin |-> f.pin, provider |-> chosen, rotated |-> ~pinned])
                /\ threads' = [threads EXCEPT ![i] =
                        IF chosen = "none"
                        THEN [f EXCEPT !.pc = "returned", !.status = "error",
                                       !.text = _fallback_response(<<"Fallo interno al seleccionar proveedor">>)]
                        ELSE [f EXCEPT !.pc = "attempt", !.provider = chosen]]
    /\ ended' = ended \cup Ending(threads'[i])
    /\ UNCHANGED <<environ, providers, active_providers_list, gameVars, uiVars>>

\* one pass of the retry loop: the request, the except clauses, the backoff
QueryAttemptFrame(f, raw) ==
    LET res == DispatchProvider(f.provider, raw)
        status == ExceptStatus(res.exc)
        g == [f EXCEPT !.tried = Append(@, f.provider), !.raws = Append(@, raw.kind)]
        exhausted == [g EXCEPT !.pc = "returned", !.status = status,
                               !.outcomes = Append(@, status),
                               !.text = _fallback_response(FallbackReason(f.provider, status))]
    IN  IF ~res.raised
        THEN [g EXCEPT !.pc = "returned", !.status = "success", !.text = res.text,
                       !.outcomes = Append(@, "success")]
        ELSE IF BreaksRetryLoop(status)
        THEN exhausted
        ELSE IF f.attempt < max_retries - 1
        THEN IF _handle_retry_delay_raises
             THEN [g EXCEPT !.pc = "raised", !.status = status,
                            !.outcomes = Append(@, status)]
             ELSE [g EXCEPT !.attempt = @ + 1, !.status = status, !.waits = @ + 1,
                            !.outcomes = Append(@, status)]
        ELSE exhausted

QueryAttempt(i, raw) ==
    /\ i \in 1..Len(threads)
    /\ threads[i].pc = "attempt"
    /\ threads' = [threads EXCEPT ![i] = QueryAttemptFrame(threads[i], raw)]
    /\ ended' = ended \cup Ending(threads'[i])
    /\ UNCHANGED <<connVars, selLog, gameVars, uiVars>>

----------------------------------------------------------------------------
(* handle_dm_response: the tags of a response *)

Digits == <<"0", "1", "2", "3", "4", "5", "6", "7", "8", "9">>

IsDigit(tok) == \E d \in 1..10 : Digits[d] = tok

DigitValue(tok) == (CHOOSE d \in 1..10 : Digits[d] = tok) - 1

\* str.upper() on the tokens that spell a tag name; "I.TEM" stands for the
\* name written with U+0130 (capital I with a dot above), which upper() keeps
Upper(tok) ==
    CASE tok \in {"dano", "Dano", "DANO"} -> "DANO"
      [] tok \in {"cura", "Cura", "CURA"} -> "CURA"
      [] tok \in {"xp", "Xp", "XP"} -> "XP"
      [] tok \in {"item", "Item", "ITEM"} -> "ITEM"
      [] OTHER -> tok

\* the alternation (DANO|CURA|XP|ITEM) under re.IGNORECASE, which also takes
\* U+0130 for the letter I
IsTagName(tok) == Upper(tok) \in {"DANO", "CURA", "XP", "ITEM"} \/ tok = "I.TEM"

\* \s, and what str.strip() removes
IsSpace(tok) == tok = " "

RECURSIVE LStrip(_)
LStrip(t) == IF t # <<>> /\ IsSpace(Head(t)) THEN LStrip(Tail(t)) ELSE t

RECURSIVE RStrip(_)
RStrip(t) ==
    IF t # <<>> /\ IsSpace(t[Len(t)]) THEN RStrip(SubSeq(t, 1, Len(t) - 1)) ELSE t

\* str.strip()
Strip(t) == RStrip(LStrip(t))

\* the first "]" at or after position k, or 0
RECURSIVE CloseAt(_, _)
CloseAt(t, k) ==
    IF k > Len(t) THEN 0 ELSE IF t[k] = "]" THEN k ELSE CloseAt(t, k + 1)

\* tag_pattern tried at position i: "[", a tag name, ":", then \s*([^\]]+)\]
\* takes at least one character up to the first "]".  The end of the match,
\* or 0 when the pattern does not match at i.
MatchEnd(t, i) ==
    IF /\ i + 3 <= Len(t)
       /\ t[i] = "["
       /\ IsTagName(t[i + 1])
       /\ t[i + 2] = ":"
    THEN LET k == CloseAt(t, i + 3) IN IF k > i + 3 THEN k ELSE 0
    ELSE 0

\* re.finditer: the leftmost matches, none overlapping, as
\* [start, end, tag, value] with value the stripped second group
RECURSIVE FindIter(_, _)
FindIter(t, i) ==
    IF i > Len(t) THEN <<>>
    ELSE LET k == MatchEnd(t, i)
         IN  IF k = 0 THEN FindIter(t, i + 1)
             ELSE <<[start |-> i, end |-> k, tag |-> Upper(t[i + 1]),
                     value |-> Strip(SubSeq(t, i + 3, k - 1))]>>
                  \o FindIter(t, k + 1)

\* the digits of a decimal numeral, most significant first
RECURSIVE DigitsValue(_)
DigitsValue(t) ==
    IF t = <<>> THEN 0
    ELSE 10 * DigitsValue(SubSeq(t, 1, Len(t) - 1)) + DigitValue(t[Len(t)])

\* int(value_str) raises ValueError unless the string is an optional sign
\* followed by digits
IntParses(v) ==
    LET d == IF v # <<>> /\ Head(v) \in {"-", "+"} THEN Tail(v) ELSE v
    IN  d # <<>> /\ \A k \in 1..Len(d) : IsDigit(d[k])

\* int(value_str)
IntValue(v) ==
    IF Head(v) = "-" THEN 0 - DigitsValue(Tail(v))
    ELSE IF Head(v) = "+" THEN DigitsValue(Tail(v))
    ELSE DigitsValue(v)

NoEffects == [damage |-> 0, heal |-> 0, xp |-> 0, items |-> <<>>]

\* the body of the loop of extract_and_remove_tags for one match: the try
\* block that adds to extracted_data, the except ValueError that only warns
CountTag(data, m) ==
    CASE m.tag = "ITEM" -> [data EXCEPT !.items = Append(@, m.value)]
      [] m.tag \in {"DANO", "CURA", "XP"} /\ ~IntParses(m.value) -> data
      [] m.tag = "DANO" -> [data EXCEPT !.damage = @ + IntValue(m.value)]
      [] m.tag = "CURA" -> [data EXCEPT !.heal = @ + IntValue(m.value)]
      [] m.tag = "XP" -> [data EXCEPT !.xp = @ + IntValue(m.value)]
      [] OTHER -> data

\* display_text[:match.start()] + display_text[match.end():]
CutSpan(display, m) ==
    SubSeq(display, 1, m.start - 1) \o SubSeq(display, m.end + 1, Len(display))

RECURSIVE ProcessMatches(_, _, _, _)

\* fault: the matches taken leftmost first, each cut made on the shortened text
\* at the offsets of the original one (slices clamp to the length of the text)
RECURSIVE LeftmostFirst(_, _, _, _)
LeftmostFirst(matches, n, data, display) ==
    IF n = 0 THEN [data |-> data, display |-> display]
    ELSE LET m == matches[Len(matches) - n + 1]
             before == IF m.start - 1 <= Len(display) THEN m.start - 1 ELSE Len(display)
             after == IF m.end + 1 <= Len(display) THEN m.end + 1 ELSE Len(display) + 1
         IN  LeftmostFirst(matches, n - 1, CountTag(data, m),
                           SubSeq(display, 1, before) \o SubSeq(display, after, Len(display)))

\* fault: int() outside the try block, the ValueError ends the loop over the tags
ValueErrorEndsLoop(matches, n, data, display) ==
    IF n = 0 THEN [data |-> data, display |-> display]
    ELSE IF matches[n].tag \in {"DANO", "CURA", "XP"} /\ ~IntParses(matches[n].value)
    THEN [data |-> data, display |-> display]
    ELSE ProcessMatches(matches, n - 1, CountTag(data, matches[n]),
                        CutSpan(display, matches[n]))

\* for match in reversed(matches): the first n matches remain to be processed
ProcessMatches(matches, n, data, display) ==
    IF n = 0 THEN [data |-> data, display |-> display]
    ELSE ProcessMatches(matches, n - 1, CountTag(data, matches[n]),
                        CutSpan(display, matches[n]))

\* extract_and_remove_tags(dm_text): the effects and the stripped display text
extract_and_remove_tags(text) ==
    LET matches == FindIter(text, 1)
        done == ProcessMatches(matches, Len(matches), NoEffects, text)
    IN  [data |-> done.data, clean |-> Strip(done.display)]

----------------------------------------------------------------------------
(* The game state and the handlers that change it.  A handler is an        *)
(* operator from the game state g = [stats, inv, ctx, over, input] to the  *)
(* game state it leaves; what it writes to the log widget is not modelled. *)

DEFAULT_PLAYER_STATS ==
    [HP |-> 15, MaxHP |-> 15, STR |-> 10, DEX |-> 10, Level |-> 1, XP |-> 0,
     XP_Next_Level |-> 100, Notas |-> "Un aventurero novato."]

\* one entry of game_context: "Jugador: ...", "DM: ..." or a bare line
Entry(who, text) == [who |-> who, text |-> text]

InitialContext == <<Entry("", <<"Inicio de la Aventura">>)>>

\* the module-level values of the game state, and of the two input widgets
NewGame ==
    [stats |-> DEFAULT_PLAYER_STATS, inv |-> <<>>, ctx |-> InitialContext,
     over |-> FALSE, input |-> "normal"]

Min(a, b) == IF a <= b THEN a ELSE b

\* fault: a set_input_state that leaves the widgets as they are
InputStateKept(g, state) == g

\* set_input_state(state): the state of input_entry and send_button
set_input_state(g, state) == [g EXCEPT !.input = state]

\* fault: a level-up that drops the experience beyond the threshold
LevelUpDropsOverflow(stats, hp_gain, stat_to_increase) ==
    IF stats.XP >= stats.XP_Next_Level
    THEN [stats EXCEPT
            !.Level = @ + 1,
            !.MaxHP = @ + hp_gain,
            !.HP = stats.MaxHP + hp_gain,
            !.STR = IF stat_to_increase = "STR" THEN @ + 1 ELSE @,
            !.DEX = IF stat_to_increase = "DEX" THEN @ + 1 ELSE @,
            !.XP_Next_Level = (stats.XP_Next_Level * 17) \div 10 + 50,
            !.XP = 0]
    ELSE stats

\* fault: a level-up that raises both attributes
LevelUpRaisesBoth(stats, hp_gain, stat_to_increase) ==
    IF stats.XP >= stats.XP_Next_Level
    THEN [stats EXCEPT
            !.Level = @ + 1,
            !.MaxHP = @ + hp_gain,
            !.HP = stats.MaxHP + hp_gain,
            !.STR = @ + 1,
            !.DEX = @ + 1,
            !.XP_Next_Level = (stats.XP_Next_Level * 17) \div 10 + 50,
            !.XP = stats.XP - stats.XP_Next_Level]
    ELSE stats

\* check_level_up, with hp_gain = random.randint(3, 6) and
\* stat_to_increase = random.choice(["STR", "DEX"])
check_level_up(stats, hp_gain, stat_to_increase) ==
    IF stats.XP >= stats.XP_Next_Level
    THEN [stats EXCEPT
            !.Level = @ + 1,
            !.MaxHP = @ + hp_gain,
            !.HP = stats.MaxHP + hp_gain,
            !.STR = IF stat_to_increase = "STR" THEN @ + 1 ELSE @,
            !.DEX = IF stat_to_increase = "DEX" THEN @ + 1 ELSE @,
            !.XP_Next_Level = (stats.XP_Next_Level * 17) \div 10 + 50,
            !.XP = stats.XP - stats.XP_Next_Level]
    ELSE stats

\* fault: a check_game_over that lets the game go on
NoGameOver(g) == g

\* check_game_over
check_game_over(g) ==
    IF g.stats.HP <= 0 /\ ~g.over
    THEN set_input_state([g EXCEPT !.over = TRUE], "disabled")
    ELSE g

\* fault: the items appended last first
RECURSIVE GrantItemsReversed(_, _)
GrantItemsReversed(inv, items) ==
    IF items = <<>> THEN inv
    ELSE GrantItemsReversed(IF items[Len(items)] # <<>>
                            THEN Append(inv, items[Len(items)]) ELSE inv,
                            SubSeq(items, 1, Len(items) - 1))

\* handle_dm_response: "for item in extracted_data['items']: if item: append"
RECURSIVE GrantItems(_, _)
GrantItems(inv, items) ==
    IF items = <<>> THEN inv
    ELSE GrantItems(IF Head(items) # <<>> THEN Append(inv, Head(items)) ELSE inv,
                    Tail(items))

\* fault: a heal that is not clamped to MaxHP
HealUnclamped(stats, data, hp_gain, stat_to_increase) ==
    LET s1 == IF data.damage > 0 THEN [stats EXCEPT !.HP = @ - data.damage] ELSE stats
        s2 == IF data.heal > 0 THEN [s1 EXCEPT !.HP = s1.HP + data.heal] ELSE s1
    IN  IF data.xp > 0
        THEN check_level_up([s2 EXCEPT !.XP = @ + data.xp], hp_gain, stat_to_increase)
        ELSE s2

\* fault: the sums applied whatever their sign
AppliesEverySum(stats, data, hp_gain, stat_to_increase) ==
    LET s1 == [stats EXCEPT !.HP = @ - data.damage]
        s2 == [s1 EXCEPT !.HP = Min(s1.HP + data.heal, s1.MaxHP)]
    IN  check_level_up([s2 EXCEPT !.XP = @ + data.xp], hp_gain, stat_to_increase)

\* fault: the heal applied before the damage
HealBeforeDamage(stats, data, hp_gain, stat_to_increase) ==
    LET s1 == IF data.heal > 0
              THEN [stats EXCEPT !.HP = Min(stats.HP + data.heal, stats.MaxHP)]
              ELSE stats
        s2 == IF data.damage > 0 THEN [s1 EXCEPT !.HP = @ - data.damage] ELSE s1
    IN  IF data.xp > 0
        THEN check_level_up([s2 EXCEPT !.XP = @ + data.xp], hp_gain, stat_to_increase)
        ELSE s2

\* handle_dm_response: damage, heal, items, experience, in this order
ApplyEffects(stats, data, hp_gain, stat_to_increase) ==
    LET s1 == IF data.damage > 0 THEN [stats EXCEPT !.HP = @ - data.damage] ELSE stats
        s2 == IF data.heal > 0
              THEN [s1 EXCEPT !.HP = Min(s1.HP + data.heal, s1.MaxHP)]
              ELSE s1
    IN  IF data.xp > 0
        THEN check_level_up([s2 EXCEPT !.XP = @ + data.xp], hp_gain, stat_to_increase)
        ELSE s2

\* fault: the game-over test made before the experience is added
GameOverBeforeExperience(g, dm_text, hp_gain, stat_to_increase) ==
    LET ex == extract_and_remove_tags(dm_text)
        g1 == [g EXCEPT !.ctx = Append(@, Entry("DM", ex.clean)),
                        !.stats = ApplyEffects(@, [ex.data EXCEPT !.xp = 0],
                                               hp_gain, stat_to_increase),
                        !.inv = GrantItems(@, ex.data.items)]
        g2 == check_game_over(g1)
        g3 == [g2 EXCEPT !.stats = ApplyEffects(@, [NoEffects EXCEPT !.xp = ex.data.xp],
                                                hp_gain, stat_to_increase)]
    IN  IF ~g3.over THEN set_input_state(g3, "normal") ELSE g3

\* handle_dm_response(dm_text)
handle_dm_response(g, dm_text, hp_gain, stat_to_increase) ==
    LET ex == extract_and_remove_tags(dm_text)
        g1 == [g EXCEPT !.ctx = Append(@, Entry("DM", ex.clean)),
                        !.stats = ApplyEffects(@, ex.data, hp_gain, stat_to_increase),
                        !.inv = GrantItems(@, ex.data.items)]
        g2 == check_game_over(g1)
    IN  IF ~g2.over THEN set_input_state(g2, "normal") ELSE g2

\* str.lower() on the tokens of the player's inputs and of the item names
Lower(tok) ==
    CASE tok = "/INV" -> "/inv"
      [] tok = "/USAR" -> "/usar"
      [] tok = "Pocion" -> "pocion"
      [] tok = "Potion" -> "potion"
      [] tok = "Espada" -> "espada"
      [] OTHER -> tok

LowerAll(t) == [k \in 1..Len(t) |-> Lower(t[k])]

\* "needle in hay", on tokens
Contains(hay, needle) ==
    \E k \in 0..(Len(hay) - Len(needle)) :
        \A j \in 1..Len(needle) : hay[k + j] = needle[j]

\* fault: the last entry that holds the query is the one used
LastMatch(inv, query) ==
    IF \E i \in 1..Len(inv) : Contains(LowerAll(inv[i]), LowerAll(query))
    THEN CHOOSE i \in 1..Len(inv) :
            /\ Contains(LowerAll(inv[i]), LowerAll(query))
            /\ \A j \in (i + 1)..Len(inv) : ~Contains(LowerAll(inv[j]), LowerAll(query))
    ELSE 0

\* use_item: the index of the first entry that holds the query, or 0
FirstMatch(inv, query) ==
    IF \E i \in 1..Len(inv) : Contains(LowerAll(inv[i]), LowerAll(query))
    THEN CHOOSE i \in 1..Len(inv) :
            /\ Contains(LowerAll(inv[i]), LowerAll(query))
            /\ \A j \in 1..(i - 1) : ~Contains(LowerAll(inv[j]), LowerAll(query))
    ELSE 0

\* use_item: "pocion" in found_item.lower() or "potion" in found_item.lower()
IsPotion(item) ==
    \/ Contains(LowerAll(item), <<"pocion">>)
    \/ Contains(LowerAll(item), <<"potion">>)

RemoveAt(s, i) == [j \in 1..(Len(s) - 1) |-> IF j < i THEN s[j] ELSE s[j + 1]]

\* fault: a potion is drunk and lost even when it heals nothing
PotionAlwaysConsumed(g, item_name_input, heal_amount) ==
    LET i == FirstMatch(g.inv, item_name_input)
        effective_heal == Min(heal_amount, g.stats.MaxHP - g.stats.HP)
    IN  IF i = 0 THEN g
        ELSE IF ~IsPotion(g.inv[i]) THEN g
        ELSE [g EXCEPT !.stats.HP = @ + effective_heal, !.inv = RemoveAt(@, i)]

\* use_item(item_name_input), with heal_amount = random.randint(4, 8)
use_item(g, item_name_input, heal_amount) ==
    LET i == FirstMatch(g.inv, item_name_input)
        effective_heal == Min(heal_amount, g.stats.MaxHP - g.stats.HP)
    IN  IF i = 0 THEN g
        ELSE IF ~IsPotion(g.inv[i]) THEN g
        ELSE IF effective_heal > 0
        THEN [g EXCEPT !.stats.HP = @ + effective_heal, !.inv = RemoveAt(@, i)]
        ELSE g

----------------------------------------------------------------------------
(* Persistence *)

\* fault: the first n entries are kept, not the last
FirstEntries(ctx, n) == SubSeq(ctx, 1, IF Len(ctx) > n THEN n ELSE Len(ctx))

\* game_context[-25:]
LastEntries(ctx, n) == SubSeq(ctx, IF Len(ctx) > n THEN Len(ctx) - n + 1 ELSE 1, Len(ctx))

\* the values of JSON, as json.dump writes them and json.load reads them
JObject(members) == [object |-> members]

JArray(elements) == [array |-> elements]

JString(s) == [string |-> s]

JNumber(n) == [number |-> n]

JBool(b) == [bool |-> b]

JNull == [null |-> TRUE]

IsA(j, type) == DOMAIN j = {type}

\* json.dump of player_stats: "Notas" holds a str, every other key an int
DumpStats(stats) ==
    JObject([k \in DOMAIN stats |->
                IF k = "Notas" THEN JString(stats[k]) ELSE JNumber(stats[k])])

\* json.dump of a list of str
DumpList(list) == JArray([k \in 1..Len(list) |-> JString(list[k])])

\* json.load: the dict, list, str, int, bool or None of a JSON value
RECURSIVE PyOf(_)
PyOf(j) ==
    CASE IsA(j, "object") -> [k \in DOMAIN j.object |-> PyOf(j.object[k])]
      [] IsA(j, "array") -> [k \in 1..Len(j.array) |-> PyOf(j.array[k])]
      [] IsA(j, "string") -> j.string
      [] IsA(j, "number") -> j.number
      [] IsA(j, "bool") -> j.bool
      [] OTHER -> "None"

\* rpg_save.json: absent, not JSON ("unparsable"), or a JSON document
NoFile == [state |-> "absent", doc |-> JNull]

BadFile(state) == [state |-> state, doc |-> JNull]

JsonFile(doc) == [state |-> "json", doc |-> doc]

\* save_game: the object written by json.dump
SaveData(g) ==
    JsonFile(JObject([player_stats |-> DumpStats(g.stats),
                      player_inventory |-> DumpList(g.inv),
                      game_context |-> DumpList(LastEntries(g.ctx, 25)),
                      game_over |-> JBool(g.over)]))

\* what the file system does to save_game: the file is written, open() raises
\* and the file is as it was, or json.dump raises after open() has truncated it
SaveOutcomes == {"written", "open_raises", "dump_raises"}

\* save_game: the file after the call; the except clause only queues a log line
save_game(g, file, io) ==
    CASE io = "written" -> SaveData(g)
      [] io = "dump_raises" -> BadFile("unparsable")
      [] OTHER -> file

Msg(kind, text, state) == [kind |-> kind, text |-> text, state |-> state]

Log == Msg("log", <<>>, "none")

\* load_data.get(key): None for a key that is missing
Get(doc, key) == IF key \in DOMAIN doc.object THEN doc.object[key] ELSE JNull

\* load_game, the path it takes: no file; an exception of open(), of
\* json.load or of load_data.get on a document that is no object ("raised");
\* the isinstance tests fail ("corrupt"); entry.startswith raises on an entry
\* of game_context that is no str, after the globals have been assigned and
\* two lines logged ("raised_late"); or the game is restored
LoadOutcome(file) ==
    CASE file.state = "absent" -> "absent"
      [] file.state = "unparsable" -> "raised"
      [] ~IsA(file.doc, "object") -> "raised"
      [] ~(/\ IsA(Get(file.doc, "player_stats"), "object")
           /\ IsA(Get(file.doc, "player_inventory"), "array")
           /\ IsA(Get(file.doc, "game_context"), "array")) -> "corrupt"
      [] \E k \in 1..Len(Get(file.doc, "game_context").array) :
            ~IsA(Get(file.doc, "game_context").array[k], "string") -> "raised_late"
      [] OTHER -> "loaded"

\* fault: a file that is rejected leaves the game as it is
RejectedFileKeepsGame(g, file) ==
    IF LoadOutcome(file) = "loaded"
    THEN [g EXCEPT !.stats = PyOf(Get(file.doc, "player_stats")),
                   !.inv = PyOf(Get(file.doc, "player_inventory")),
                   !.ctx = PyOf(Get(file.doc, "game_context")),
                   !.over = IF "game_over" \in DOMAIN file.doc.object
                            THEN PyOf(Get(file.doc, "game_over")) ELSE FALSE]
    ELSE g

\* fault: a missing file resets the game like a rejected one
MissingFileResetsGame(g, file) ==
    IF LoadOutcome(file) = "loaded"
    THEN [g EXCEPT !.stats = PyOf(Get(file.doc, "player_stats")),
                   !.inv = PyOf(Get(file.doc, "player_inventory")),
                   !.ctx = PyOf(Get(file.doc, "game_context")),
                   !.over = IF "game_over" \in DOMAIN file.doc.object
                            THEN PyOf(Get(file.doc, "game_over")) ELSE FALSE]
    ELSE [g EXCEPT !.stats = DEFAULT_PLAYER_STATS, !.inv = <<>>,
                   !.ctx = InitialContext, !.over = FALSE]

\* load_game: the game state it leaves
load_game(g, file) ==
    CASE LoadOutcome(file) = "absent" -> g
      [] LoadOutcome(file) = "loaded" ->
            [g EXCEPT !.stats = PyOf(Get(file.doc, "player_stats")),
                      !.inv = PyOf(Get(file.doc, "player_inventory")),
                      !.ctx = PyOf(Get(file.doc, "game_context")),
                      !.over = IF "game_over" \in DOMAIN file.doc.object
                               THEN PyOf(Get(file.doc, "game_over")) ELSE FALSE]
      [] OTHER ->
            [g EXCEPT !.stats = DEFAULT_PLAYER_STATS, !.inv = <<>>,
                      !.ctx = InitialContext, !.over = FALSE]

\* load_game: what it puts on gui_queue
LoadMessages(file) ==
    CASE LoadOutcome(file) = "loaded" ->
            <<Log, Log, Msg("process_log_batch", <<>>, "none"), Log,
              Msg("update_status", <<>>, "none")>>
            \o (IF load_game(NewGame, file).over
                THEN <<Log, Msg("set_input_state", <<>>, "disabled")>>
                ELSE <<>>)
      [] LoadOutcome(file) = "raised_late" -> <<Log, Log, Log>>
      [] OTHER -> <<Log>>

----------------------------------------------------------------------------
(* The connector alone, called by a client one call at a time *)

ClientCall(pin) ==
    /\ threads = <<>>
    /\ Len(selLog) < MaxCalls
    /\ pin # NoPin => Cardinality({k \in 1..Len(selLog) : selLog[k].pin # NoPin}) < MaxPinned
    /\ threads' = <<NewFrame("enter", pin)>>
    /\ UNCHANGED <<connVars, selLog, ended, gameVars, uiVars>>

\* the call is over: its result, or its exception, is the client's
ClientReturn ==
    /\ Len(threads) = 1
    /\ threads[1].pc \in {"returned", "raised"}
    /\ threads' = <<>>
    /\ UNCHANGED <<connVars, selLog, ended, gameVars, uiVars>>

InitConn ==
    /\ environ \in {Environment(k, Providers) : k \in SUBSET Providers}
    /\ LET cfg == [p \in Providers |->
                      ConfigureProvider(p, environ.keys, environ.probe_ok)]
       IN  /\ providers = cfg
           /\ active_providers_list = ActiveList(cfg)
    /\ provider_cycler = 0
    /\ threads = <<>>
    /\ selLog = <<>>
    /\ ended = {}
    /\ connector = TRUE
    /\ player_stats = NewGame.stats
    /\ player_inventory = NewGame.inv
    /\ game_context = NewGame.ctx
    /\ game_over = NewGame.over
    /\ input_state = NewGame.input
    /\ entry = <<>>
    /\ gui_queue = <<>>
    /\ save_file = NoFile
    /\ ui = "none"
    /\ dispatched = 0
    /\ handled = 0
    /\ saves = 0

NextConn ==
    \/ \E pin \in Pins : ClientCall(pin)
    \/ QueryEnter(1)
    \/ \E raw \in RawOutcomes : QueryAttempt(1, raw)
    \/ ClientReturn

SpecConn == InitConn /\ [][NextConn]_vars

----------------------------------------------------------------------------
(* The game: the main thread, its queue, and the worker threads *)

Game ==
    [stats |-> player_stats, inv |-> player_inventory, ctx |-> game_context,
     over |-> game_over, input |-> input_state]

SetGame(g) ==
    /\ player_stats' = g.stats
    /\ player_inventory' = g.inv
    /\ game_context' = g.ctx
    /\ game_over' = g.over
    /\ input_state' = g.input

\* a save file left by an earlier session, of a game in progress
InProgressSave ==
    SaveData([stats |-> [DEFAULT_PLAYER_STATS EXCEPT !.HP = 9, !.XP = 40],
              inv |-> << <<"Pocion">> >>,
              ctx |-> InitialContext \o <<Entry("Jugador", <<"ataco">>),
                                          Entry("DM", <<"Fallas">>)>>,
              over |-> FALSE])

\* a save file left by an earlier session, of a game that was lost
FinishedSave ==
    SaveData([stats |-> [DEFAULT_PLAYER_STATS EXCEPT !.HP = 0],
              inv |-> <<>>,
              ctx |-> InitialContext \o <<Entry("Jugador", <<"ataco">>),
                                          Entry("DM", <<"Mueres">>)>>,
              over |-> TRUE])

\* a JSON document that is no save: its player_inventory is a string
InvalidSave ==
    JsonFile(JObject([InProgressSave.doc.object EXCEPT
                         !.player_inventory = JString(<<"Pocion">>)]))

InitialFiles ==
    {NoFile, BadFile("unparsable"), InvalidSave, InProgressSave, FinishedSave}

\* what the player types
PlayerInputs ==
    { <<"ataco">>, <<" ">>, <<"/INV">>, <<"/usar", " ", "pocion">>,
      <<"/guardar">>, <<"/cargar">> }

\* the credentials in the environment, and the providers whose probe succeeds
CredentialSets == { {}, {"deepseek"}, Providers }

ProbeSets == { Providers \ {"gemini"} }

\* the draws of random.randint(3, 6) in check_level_up
HpGains == 3..6

\* the draws of random.randint(4, 8) in use_item: the ends of the range
HealAmounts == {4, 8}

\* fault: every input goes to the DM
EveryInputIsAnAction(player_input) == "action"

\* process_player_input: the chain of tests on command = player_input.lower()
Command(player_input) ==
    LET command == LowerAll(player_input)
    IN  CASE command \in {<<"/inv">>, <<"/inventario">>} -> "inv"
          [] Len(command) >= 2 /\ command[1] = "/usar" /\ command[2] = " " -> "usar"
          [] command \in {<<"/guardar">>, <<"/save">>} -> "save"
          [] command \in {<<"/cargar">>, <<"/load">>} -> "load"
          [] command \in {<<"/stats">>, <<"/hp">>} -> "stats"
          [] command \in {<<"/ayuda">>, <<"/help">>} -> "help"
          [] OTHER -> "action"

\* ask_dm_ai: set_input_state(tk.DISABLED) and run_in_thread(generation_task)
AskDmAi(g) ==
    /\ SetGame(set_input_state(g, "disabled"))
    /\ threads' = Append(threads, NewFrame("task", NoPin))
    /\ dispatched' = dispatched + 1

\* fault: the initial scene is asked for whatever was loaded
AlwaysStartGame(g) == <<Msg("start_game", <<>>, "none")>>

\* initialize_connector, its last statement: a new game is started, a loaded
\* game is resumed, a loaded game that had ended stays locked
StartupTasks(g) ==
    IF ~g.over /\ Len(g.ctx) <= 1
    THEN <<Msg("start_game", <<>>, "none")>>
    ELSE IF ~g.over
    THEN <<Log, Msg("set_input_state", <<>>, "normal")>>
    ELSE <<Msg("set_input_state", <<>>, "disabled")>>

\* initialize_connector: load_game, HybridAIConnector(), and the tasks it queues
Startup ==
    /\ ui = "startup"
    /\ ConnectorInit(environ.keys, environ.probe_ok)
    /\ connector' = (active_providers_list' # <<>>)
    /\ LET g == load_game(Game, save_file)
       IN  /\ SetGame(g)
           /\ gui_queue' =
                 <<Log>> \o LoadMessages(save_file)
                 \o <<Log, Log, Msg("update_status", <<>>, "none")>>
                 \o StartupTasks(g)
    /\ ui' = "first_drain"
    /\ UNCHANGED <<environ, threads, selLog, ended, entry, save_file, dispatched,
                   handled, saves>>

\* window.after(100, process_gui_queue) comes due
TimerFires ==
    /\ ui = "idle"
    /\ gui_queue # <<>>
    /\ ui' = "drain"
    /\ UNCHANGED <<connVars, threads, selLog, ended, gameVars, connector, entry,
                   gui_queue, save_file, dispatched, handled, saves>>

\* process_gui_queue: one pass of its while loop
ProcessMessage ==
    /\ ui \in {"first_drain", "drain"}
    /\ gui_queue # <<>>
    /\ gui_queue' = Tail(gui_queue)
    /\ LET m == Head(gui_queue)
       IN  CASE m.kind = "callback" ->
                  /\ \E hp_gain \in HpGains, stat \in {"STR", "DEX"} :
                        SetGame(handle_dm_response(Game, m.text, hp_gain, stat))
                  /\ handled' = handled + 1
                  /\ UNCHANGED <<threads, dispatched>>
             [] m.kind = "start_game" ->
                  /\ AskDmAi(IF ~game_over THEN set_input_state(Game, "disabled") ELSE Game)
                  /\ UNCHANGED handled
             [] m.kind = "set_input_state" ->
                  /\ SetGame(set_input_state(Game, m.state))
                  /\ UNCHANGED <<threads, dispatched, handled>>
             [] OTHER -> UNCHANGED <<gameVars, threads, dispatched, handled>>
    /\ UNCHANGED <<connVars, selLog, ended, connector, entry, save_file, ui, saves>>

\* process_gui_queue finds the queue empty; after the first call the module
\* goes on to "if not game_over ... else: set_input_state(tk.DISABLED)" and
\* to window.mainloop()
DrainEnds ==
    /\ ui \in {"first_drain", "drain"}
    /\ gui_queue = <<>>
    /\ ui' = "idle"
    /\ SetGame(IF ui = "first_drain" /\ game_over
               THEN set_input_state(Game, "disabled") ELSE Game)
    /\ UNCHANGED <<connVars, threads, selLog, ended, connector, entry, gui_queue,
                   save_file, dispatched, handled, saves>>

\* the player types into input_entry, which takes text only when enabled
TypeInput(text) ==
    /\ ui = "idle"
    /\ input_state = "normal"
    /\ Len(gui_queue) <= MaxBacklog
    /\ Command(Strip(text)) = "action" /\ Strip(text) # <<>> => dispatched < MaxQueries
    /\ Command(Strip(text)) = "save" => saves < MaxSaves
    /\ entry' = text
    /\ UNCHANGED <<connVars, threads, selLog, ended, gameVars, connector, gui_queue,
                   save_file, ui, dispatched, handled, saves>>

\* input_entry.delete(0, tk.END): a disabled entry keeps its text
ClearEntry(text, state) == IF state = "normal" THEN <<>> ELSE text

\* process_player_input, bound to <Return> and to the send button
process_player_input ==
    /\ ui = "idle"
    /\ LET player_input == Strip(entry)
           cmd == Command(player_input)
       IN  IF game_over \/ player_input = <<>>
           THEN UNCHANGED <<gameVars, threads, entry, gui_queue, save_file, dispatched, saves>>
           ELSE /\ entry' = ClearEntry(entry, input_state)
                /\ CASE cmd = "usar" ->
                          /\ \E heal_amount \in HealAmounts :
                                SetGame(use_item(Game, Strip(SubSeq(player_input, 3, Len(player_input))),
                                                 heal_amount))
                          /\ UNCHANGED <<threads, gui_queue, save_file, dispatched, saves>>
                     [] cmd = "save" ->
                          /\ \E io \in SaveOutcomes :
                                /\ save_file' = save_game(Game, save_file, io)
                                /\ gui_queue' = IF io = "written" THEN gui_queue
                                                ELSE Append(gui_queue, Log)
                          /\ saves' = saves + 1
                          /\ UNCHANGED <<gameVars, threads, dispatched>>
                     [] cmd = "load" ->
                          /\ SetGame(load_game(Game, save_file))
                          /\ gui_queue' = gui_queue \o LoadMessages(save_file)
                          /\ UNCHANGED <<threads, save_file, dispatched, saves>>
                     [] cmd = "action" ->
                          /\ AskDmAi([Game EXCEPT !.ctx = Append(@, Entry("Jugador", player_input))])
                          /\ UNCHANGED <<gui_queue, save_file, saves>>
                     [] OTHER ->
                          UNCHANGED <<gameVars, threads, gui_queue, save_file, dispatched, saves>>
    /\ UNCHANGED <<connVars, selLog, ended, connector, ui, handled>>

\* window.destroy() ends mainloop and the script: the daemon workers and all
\* the memory of the process are gone, the save file stays
ProcessExits ==
    /\ UNCHANGED environ
    /\ providers' = Unconfigured
    /\ active_providers_list' = <<>>
    /\ provider_cycler' = 0
    /\ threads' = <<>>
    /\ selLog' = <<>>
    /\ ended' = {}
    /\ connector' = FALSE
    /\ SetGame(NewGame)
    /\ entry' = <<>>
    /\ gui_queue' = <<>>
    /\ ui' = "closed"
    /\ dispatched' = 0
    /\ handled' = 0
    /\ saves' = 0

\* on_closing: the player closes the window, and answers the dialogs
on_closing ==
    /\ ui = "idle"
    /\ \E save \in BOOLEAN, io \in SaveOutcomes, leave \in BOOLEAN :
          LET saving == ~game_over /\ save
          IN  /\ save_file' = IF saving THEN save_game(Game, save_file, io) ELSE save_file
              /\ IF saving /\ io # "written" /\ ~leave
                 THEN /\ saves < MaxSaves
                      /\ Len(gui_queue) <= MaxBacklog
                      /\ saves' = saves + 1
                      /\ gui_queue' = Append(gui_queue, Log)
                      /\ UNCHANGED <<connVars, threads, selLog, ended, gameVars,
                                     connector, entry, ui, dispatched, handled>>
                 ELSE ProcessExits

\* the workers run while the process does
Running == ui # "closed"

\* fault: an offline reply that carries a tag
OfflineReplyHurts ==
    <<"El DM se queda en silencio", ".", " ", "[", "DANO", ":", "5", "]">>

\* generation_task up to the call of query: "if connector", else the offline reply
OfflineReply ==
    <<"El DM se queda en silencio", ".", " ", "Que intentas hacer de todos modos">>

GenStart(i) ==
    /\ Running
    /\ i \in 1..Len(threads)
    /\ threads[i].pc = "task"
    /\ IF connector
       THEN /\ threads' = [threads EXCEPT ![i].pc = "enter"]
            /\ UNCHANGED gui_queue
       ELSE /\ threads' = [threads EXCEPT ![i].pc = "put", ![i].result = OfflineReply]
            /\ gui_queue' = Append(gui_queue, Log)
    /\ UNCHANGED <<connVars, selLog, ended, gameVars, connector, entry, save_file, ui,
                   dispatched, handled, saves>>

\* generation_task: the text made from a failed query, json.loads(response_text)
\* giving the "error" field, or status when the text is not JSON
FallbackText(text, status) ==
    <<"[", "Fallback por error API", ":", " ">>
    \o (IF text.json THEN text.error ELSE <<status>>)
    \o <<".", " ", "El DM esta confundido", ".", " ", "Intenta algo simple", ".", "]">>

\* generation_task after query has returned
GenAfterQuery(i) ==
    /\ Running
    /\ i \in 1..Len(threads)
    /\ threads[i].pc = "returned"
    /\ LET f == threads[i]
       IN  IF f.status = "success" /\ ~f.text.json /\ f.text.body # <<>>
           THEN /\ threads' = [threads EXCEPT ![i].pc = "put",
                                               ![i].result = Strip(f.text.body)]
                /\ UNCHANGED gui_queue
           ELSE /\ threads' = [threads EXCEPT ![i].pc = "put",
                                               ![i].result = FallbackText(f.text, f.status)]
                /\ gui_queue' = Append(gui_queue, Log)
    /\ UNCHANGED <<connVars, selLog, ended, gameVars, connector, entry, save_file, ui,
                   dispatched, handled, saves>>

\* fault: the worker calls the callback itself
GenCallsBack(i) ==
    /\ Running
    /\ i \in 1..Len(threads)
    /\ threads[i].pc = "put"
    /\ SetGame(handle_dm_response(Game, threads[i].result, 3, "STR"))
    /\ handled' = handled + 1
    /\ threads' = RemoveAt(threads, i)
    /\ UNCHANGED <<connVars, selLog, ended, connector, entry, gui_queue, save_file, ui,
                   dispatched, saves>>

\* generation_task: gui_queue.put((callback, result)), and the thread ends
GenPutCallback(i) ==
    /\ Running
    /\ i \in 1..Len(threads)
    /\ threads[i].pc = "put"
    /\ gui_queue' = Append(gui_queue, Msg("callback", threads[i].result, "none"))
    /\ threads' = RemoveAt(threads, i)
    /\ UNCHANGED <<connVars, selLog, ended, gameVars, connector, entry, save_file, ui,
                   dispatched, handled, saves>>

\* an exception that leaves query is caught by nothing in generation_task:
\* it ends the thread
ThreadDies(i) ==
    /\ Running
    /\ i \in 1..Len(threads)
    /\ threads[i].pc = "raised"
    /\ threads' = RemoveAt(threads, i)
    /\ UNCHANGED <<connVars, selLog, ended, gameVars, uiVars>>

Init ==
    /\ environ \in {Environment(k, ok) : k \in CredentialSets, ok \in ProbeSets}
    /\ providers = Unconfigured
    /\ active_providers_list = <<>>
    /\ provider_cycler = 0
    /\ threads = <<>>
    /\ selLog = <<>>
    /\ ended = {}
    /\ connector = FALSE
    /\ player_stats = NewGame.stats
    /\ player_inventory = NewGame.inv
    /\ game_context = NewGame.ctx
    /\ game_over = NewGame.over
    /\ input_state = NewGame.input
    /\ entry = <<>>
    /\ gui_queue = <<>>
    /\ save_file \in InitialFiles
    /\ ui = "startup"
    /\ dispatched = 0
    /\ handled = 0
    /\ saves = 0

Next ==
    \/ Startup
    \/ TimerFires
    \/ ProcessMessage
    \/ DrainEnds
    \/ \E text \in PlayerInputs : TypeInput(text)
    \/ process_player_input
    \/ on_closing
    \/ \E i \in 1..Len(threads) :
          \/ GenStart(i)
          \/ Running /\ QueryEnter(i)
          \/ \E raw \in RawOutcomes : Running /\ QueryAttempt(i, raw)
          \/ GenAfterQuery(i)
          \/ GenPutCallback(i)
          \/ ThreadDies(i)

Spec == Init /\ [][Next]_vars

\* the workers are threads of the operating system and run on; the UI loop
\* re-arms its timer with window.after(100, process_gui_queue) at the end of
\* every pass and drains the queue when it comes due
Fairness ==
    /\ WF_vars(Startup)
    /\ WF_vars(TimerFires)
    /\ WF_vars(ProcessMessage)
    /\ WF_vars(DrainEnds)
    /\ WF_vars(\E i \in 1..Len(threads) : GenStart(i))
    /\ WF_vars(\E i \in 1..Len(threads) : GenPutCallback(i))

----------------------------------------------------------------------------
(* The game in an environment that gives no active provider: no key at all, *)
(* or keys whose providers all fail their probe.  The worker never reaches  *)
(* query, whose steps are left out.                                         *)

InitOffline ==
    /\ environ \in {Environment({}, Providers), Environment(Providers, {})}
    /\ providers = Unconfigured
    /\ active_providers_list = <<>>
    /\ provider_cycler = 0
    /\ threads = <<>>
    /\ selLog = <<>>
    /\ ended = {}
    /\ connector = FALSE
    /\ player_stats = NewGame.stats
    /\ player_inventory = NewGame.inv
    /\ game_context = NewGame.ctx
    /\ game_over = NewGame.over
    /\ input_state = NewGame.input
    /\ entry = <<>>
    /\ gui_queue = <<>>
    /\ save_file \in InitialFiles
    /\ ui = "startup"
    /\ dispatched = 0
    /\ handled = 0
    /\ saves = 0

NextOffline ==
    \/ Startup
    \/ TimerFires
    \/ ProcessMessage
    \/ DrainEnds
    \/ \E text \in PlayerInputs : TypeInput(text)
    \/ process_player_input
    \/ on_closing
    \/ \E i \in 1..Len(threads) :
          \/ GenStart(i)
          \/ GenPutCallback(i)

SpecOffline == InitOffline /\ [][NextOffline]_vars /\ Fairness

----------------------------------------------------------------------------
(* The startup alone, in every environment *)

InitStartup ==
    /\ environ \in {Environment(k, ok) : k \in SUBSET Providers, ok \in SUBSET Providers}
    /\ providers = Unconfigured
    /\ active_providers_list = <<>>
    /\ provider_cycler = 0
    /\ threads = <<>>
    /\ selLog = <<>>
    /\ ended = {}
    /\ connector = FALSE
    /\ player_stats = NewGame.stats
    /\ player_inventory = NewGame.inv
    /\ game_context = NewGame.ctx
    /\ game_over = NewGame.over
    /\ input_state = NewGame.input
    /\ entry = <<>>
    /\ gui_queue = <<>>
    /\ save_file \in InitialFiles
    /\ ui = "startup"
    /\ dispatched = 0
    /\ handled = 0
    /\ saves = 0

\* initialize_connector, then the first call of process_gui_queue
NextStartup ==
    \/ Startup
    \/ ProcessMessage
    \/ DrainEnds

SpecStartup == InitStartup /\ [][NextStartup]_vars

----------------------------------------------------------------------------
(* One response of the DM, applied by the UI loop to a game in progress *)

\* what the texts of the DM are put together from: tags of every kind, in
\* upper and lower case, with a sign, with a value that is no number, with an
\* empty value, the halves of a tag, and plain words
TagPieces ==
    { <<"Hola">>,
      <<" ">>,
      <<"[", "XP">>,
      <<":", "5", "]">>,
      <<"[", "XP", ":", "1", "]">>,
      <<"[", "XP", ":", " ", "3", "2", "0", "]">>,
      <<"[", "xp", ":", "muchos", "]">>,
      <<"[", "DANO", ":", " ", "2", "0", "]">>,
      <<"[", "dano", ":", "-", "5", "]">>,
      <<"[", "Cura", ":", "5", " ", "]">>,
      <<"[", "cura", ":", "-", "8", "]">>,
      <<"[", "XP", ":", "-", "1", "]">>,
      <<"[", "ITEM", ":", " ", "Pocion", "]">>,
      <<"[", "I.TEM", ":", "Espada", "]">>,
      <<"[", "Item", ":", "Llave", "]">>,
      <<"[", "item", ":", " ", "]">> }

\* the texts made of at most n pieces
RECURSIVE TextsOf(_)
TextsOf(n) ==
    IF n = 0 THEN {<<>>}
    ELSE LET shorter == TextsOf(n - 1)
         IN  shorter \cup {t \o piece : t \in shorter, piece \in TagPieces}

ResponseTexts == TextsOf(MaxPieces)

\* the stats of a player who has levelled up n times, each time on reaching
\* the threshold exactly
RECURSIVE StatsAfter(_)
StatsAfter(n) ==
    IF n = 0 THEN DEFAULT_PLAYER_STATS
    ELSE LET s == StatsAfter(n - 1)
         IN  check_level_up([s EXCEPT !.XP = s.XP_Next_Level], 3, "STR")

\* the stats a response can meet: any of these levels, unhurt or hurt, with
\* no experience or close to the next level
StatsSamples ==
    { [s EXCEPT !.HP = hp, !.XP = xp] :
        s \in {StatsAfter(n) : n \in 0..MaxLevelUps},
        hp \in {3, 15}, xp \in {0, 90} }

\* the worker of the player's query has put its callback and ended; the UI
\* loop is about to handle it
InitResp ==
    /\ environ = Environment({"deepseek"}, Providers)
    /\ providers = [p \in Providers |-> p = "deepseek"]
    /\ active_providers_list = <<"deepseek">>
    /\ provider_cycler = 0
    /\ threads = <<>>
    /\ selLog = <<[pin |-> NoPin, provider |-> "deepseek", rotated |-> TRUE]>>
    /\ ended = {"success"}
    /\ connector = TRUE
    /\ player_stats \in StatsSamples
    /\ player_inventory \in {<<>>, << <<"Daga">> >>}
    /\ game_context = InitialContext \o <<Entry("Jugador", <<"ataco">>)>>
    /\ game_over = FALSE
    /\ input_state = "disabled"
    /\ entry = <<>>
    /\ \E text \in ResponseTexts : gui_queue = <<Msg("callback", text, "none")>>
    /\ save_file = NoFile
    /\ ui = "drain"
    /\ dispatched = 1
    /\ handled = 0
    /\ saves = 0

NextResp ==
    \/ ProcessMessage
    \/ DrainEnds

SpecResp == InitResp /\ [][NextResp]_vars

----------------------------------------------------------------------------
(* The commands of the player, typed into a game in progress *)

\* the names of the items the player holds
ItemNames ==
    { <<"Pocion">>, <<"Espada">>, <<"Espada", " ", "Potion">> }

\* the inventories of at most MaxItems entries
Inventories == UNION {[1..n -> ItemNames] : n \in 0..MaxItems}

\* a history of n entries: the opening line, then the turns of the player and
\* of the DM, each with its number
History(n) ==
    [k \in 1..n |->
        IF k = 1 THEN InitialContext[1]
        ELSE Entry(IF k % 2 = 0 THEN "Jugador" ELSE "DM",
                   <<"turno", " ", Digits[(k \div 10) + 1], Digits[(k % 10) + 1]>>)]

\* the lengths around the 25 entries that save_game keeps
HistoryLengths == {1, 2, 24, 25, 26, MaxHistory}

\* the games the commands meet: every inventory with a player who is hurt,
\* nearly healed or unhurt, and every history with a hurt player and a potion
GameSamples ==
    { [NewGame EXCEPT !.stats.HP = hp, !.inv = inv, !.ctx = History(3)] :
        hp \in {9, 12, 15}, inv \in Inventories }
    \cup
    { [NewGame EXCEPT !.stats.HP = 9, !.stats.XP = 40 + n,
                      !.inv = << <<"Pocion">> >>, !.ctx = History(n)] :
        n \in HistoryLengths }

\* the files /cargar can meet: those of a startup, and documents that are no
\* object, that hold player_stats as a list, that lack game_context, that
\* hold a number among the entries of game_context, or that lack game_over
SaveFiles ==
    InitialFiles
    \cup { JsonFile(JArray(<<>>)),
           JsonFile(JObject([InProgressSave.doc.object EXCEPT
                                !.player_stats = JArray(<<JNumber(9)>>)])),
           JsonFile(JObject([k \in {"player_stats", "player_inventory", "game_over"} |->
                                InProgressSave.doc.object[k]])),
           JsonFile(JObject([InProgressSave.doc.object EXCEPT
                                !.game_context = JArray(<<JString(InitialContext[1]),
                                                         JNumber(7)>>)])),
           JsonFile(JObject([k \in {"player_stats", "player_inventory", "game_context"} |->
                                InProgressSave.doc.object[k]])) }

\* what the player types: every command, in lower or upper case, and actions
CommandInputs ==
    { <<"/usar", " ", "pocion">>, <<"/USAR", " ", "Espada">>,
      <<"/usar", " ", "potion">>, <<"/usar", " ", "escudo">>,
      <<"/INV">>, <<"/stats">>, <<"/help">>, <<"/guardar">>, <<"/cargar">>,
      <<"/usar">>, <<"ataco">> }

\* the startup is over, the first scene has been told, the loop is idle
InitCmd ==
    /\ environ = Environment({"deepseek"}, Providers)
    /\ providers = [p \in Providers |-> p = "deepseek"]
    /\ active_providers_list = <<"deepseek">>
    /\ provider_cycler = 0
    /\ threads = <<>>
    /\ selLog = <<[pin |-> NoPin, provider |-> "deepseek", rotated |-> TRUE]>>
    /\ ended = {"success"}
    /\ connector = TRUE
    /\ \E g \in GameSamples : /\ player_stats = g.stats
                              /\ player_inventory = g.inv
                              /\ game_context = g.ctx
                              /\ game_over = g.over
                              /\ input_state = g.input
    /\ entry = <<>>
    /\ gui_queue = <<>>
    /\ save_file \in SaveFiles
    /\ ui = "idle"
    /\ dispatched = 1
    /\ handled = 1
    /\ saves = 0

NextCmd ==
    \/ \E text \in CommandInputs : TypeInput(text)
    \/ process_player_input
    \/ TimerFires
    \/ ProcessMessage
    \/ DrainEnds

SpecCmd == InitCmd /\ [][NextCmd]_vars

----------------------------------------------------------------------------
(* Claims about the connector *)

NActive == Len(active_providers_list)

\* the provider at rotation step k (k = 1, 2, ...) of the active list
AtStep(k) == active_providers_list[((k - 1) % NActive) + 1]

Last(s) == s[Len(s)]

Transient == {"timeout", "error_network"}

NormalizedKinds == {"success", "timeout", "error_network", "error_provider", "error"}

Frames == {threads[i] : i \in 1..Len(threads)}

\* the calls of the log that took a rotation step, up to call k
Rotations(k) == Cardinality({j \in 1..k : selLog[j].rotated})

\* the unpinned calls of the log, up to call k
Unpinned(k) == Cardinality({j \in 1..k : selLog[j].pin = NoPin})

\* C1 as stated: with N >= 1 active providers the i-th unpinned call to query
\* selects active_providers_list[(i-1) mod N], however the earlier calls ended.
C1_UnpinnedCallsArePeriodic ==
    NActive >= 1 =>
        \A k \in 1..Len(selLog) :
            selLog[k].pin = NoPin => selLog[k].provider = AtStep(Unpinned(k))

\* C1, amended: with N >= 1 active providers every unpinned call takes a
\* rotation step, and the i-th call that takes one (an unpinned call, or a call
\* pinned to an unknown or unconfigured provider) selects
\* active_providers_list[(i-1) mod N], however the earlier calls ended.
C1_RotationIsPeriodic ==
    NActive >= 1 =>
        \A k \in 1..Len(selLog) :
            /\ selLog[k].pin = NoPin => selLog[k].rotated
            /\ selLog[k].rotated => selLog[k].provider = AtStep(Rotations(k))

\* three providers, four calls that rotate, one of them pinned to a provider
\* that cannot be used; the fourth wraps round to the first provider, after
\* calls that ended in success, in a provider error and in an exception
C1_Witness ==
    /\ NActive = 3
    /\ Len(selLog) = 4
    /\ \A k \in 1..4 : selLog[k].rotated
    /\ \E k \in 1..3 : selLog[k].pin # NoPin
    /\ selLog[4].pin = NoPin
    /\ selLog[4].provider = active_providers_list[1]
    /\ {"success", "error_provider", "raised"} \subseteq ended

\* C2: after an attempt fails with a timeout or a network error and fewer than
\* max_retries attempts have been made, query goes on to a further attempt
\* against the same provider, and a well-formed response on a later attempt
\* makes query return with status success.
C2_TransientFailureIsRetried ==
    \A f \in Frames :
        /\ (f.outcomes # <<>> /\ Last(f.outcomes) \in Transient
                /\ Len(f.outcomes) < max_retries)
              => (f.pc = "attempt" /\ f.attempt = Len(f.outcomes)
                    /\ f.provider = Last(f.tried))
        /\ (f.outcomes # <<>> /\ Last(f.outcomes) = "success")
              => (f.pc = "returned" /\ f.status = "success")

\* C3: query never raises to its caller and returns a status of a normalized kind.
C3_QueryNeverRaises ==
    \A f \in Frames :
        /\ f.pc # "raised"
        /\ f.pc = "returned" => f.status \in NormalizedKinds

\* C5: when every attempt fails with a timeout or a network error, query ends
\* after exactly max_retries attempts, returning the fallback payload with the
\* status of the last failed attempt.
C5_ExhaustedRetriesReturnFallback ==
    \A f \in Frames :
        (/\ f.pc \in {"returned", "raised"}
         /\ f.outcomes # <<>>
         /\ \A k \in 1..Len(f.outcomes) : f.outcomes[k] \in Transient)
        => /\ f.pc = "returned"
           /\ Len(f.tried) = max_retries
           /\ f.text.json
           /\ f.status = Last(f.outcomes)

C7_DisabledModeReturnsFallback ==
    NActive = 0 =>
        /\ \A f \in Frames :
              /\ f.tried = <<>>
              /\ f.pc \in {"enter", "returned"}
              /\ f.pc = "returned" => (f.text.json /\ f.status = "error")
        /\ \A k \in 1..Len(selLog) : selLog[k].provider = "none"
        /\ ended \subseteq {"error"}

\* a pinned call returned in the disabled mode, after an unpinned one
C7_Witness ==
    /\ NActive = 0
    /\ \E k \in 1..Len(selLog) : selLog[k].pin = NoPin
    /\ \E f \in Frames : f.pin \in Providers /\ f.pc = "returned" /\ f.text.json

\* C8: with a non-empty active set a call advances the rotation once when it
\* pins no provider or pins an unknown or unconfigured one, and uses the pinned
\* provider without moving the rotation when that provider is configured; calls
\* pinned to a configured provider do not shift what the rotating calls observe.
C8_PinnedCallsKeepTheCursor ==
    NActive >= 1 =>
        /\ provider_cycler =
              Len(SelectSeq(selLog, LAMBDA e : ~(e.pin \in Providers /\ providers[e.pin]))) % NActive
        /\ \A k \in 1..Len(selLog) :
              LET e == selLog[k]
              IN  IF e.pin \in Providers /\ providers[e.pin]
                  THEN e.provider = e.pin /\ ~e.rotated
                  ELSE e.provider = AtStep(Rotations(k)) /\ e.rotated
        /\ (\A j \in 1..Len(selLog) : selLog[j].pin # NoPin => ~selLog[j].rotated)
              => \A k \in 1..Len(selLog) :
                    selLog[k].pin = NoPin => selLog[k].provider = AtStep(Unpinned(k))

\* an unpinned call, a call pinned to a configured provider that is not the
\* one the rotation is at, then an unpinned call that gets the second provider;
\* and in another behaviour a call pinned to an unknown name that rotated
C8_Witness ==
    /\ NActive = 3
    /\ Len(selLog) = 3
    /\ selLog[1].pin = NoPin
    /\ selLog[2].pin = active_providers_list[3] /\ selLog[2].provider = selLog[2].pin
    /\ selLog[3].pin = NoPin /\ selLog[3].provider = active_providers_list[2]
    /\ provider_cycler = 2

\* the first unpinned call after call k, or 0
NextUnpinned(k) ==
    LET later == {j \in (k + 1)..Len(selLog) : selLog[j].pin = NoPin}
    IN  IF later = {} THEN 0 ELSE CHOOSE j \in later : \A m \in later : j <= m

\* the first call after call k that took a rotation step, or 0
NextRotation(k) ==
    LET later == {j \in (k + 1)..Len(selLog) : selLog[j].rotated}
    IN  IF later = {} THEN 0 ELSE CHOOSE j \in later : \A m \in later : j <= m

\* every attempt of a call goes to the provider chosen at the start of the call
AttemptsStayWithTheProvider ==
    \A f \in Frames :
        /\ \A k \in 1..Len(f.tried) : f.tried[k] = f.provider
        /\ f.pc # "enter" => f.provider = Last(selLog).provider

\* C9 as stated: every attempt of one call goes to the provider chosen at the
\* start of the call, also when the attempts fail, and with N >= 2 active
\* providers the next unpinned call chooses a different provider.
C9_NextUnpinnedCallDiffers ==
    /\ AttemptsStayWithTheProvider
    /\ NActive >= 2 =>
          \A k \in 1..Len(selLog) :
              NextUnpinned(k) # 0 => selLog[NextUnpinned(k)].provider # selLog[k].provider

\* C9, amended: every attempt of one call goes to the provider chosen at the
\* start of the call, also when the attempts fail, and with N >= 2 active
\* providers the next call that takes a rotation step after a call that took
\* one chooses a different provider.
C9_NoCrossProviderFallback ==
    /\ AttemptsStayWithTheProvider
    /\ NActive >= 2 =>
          \A k \in 1..Len(selLog) :
              (selLog[k].rotated /\ NextRotation(k) # 0)
                  => selLog[NextRotation(k)].provider # selLog[k].provider

\* a rotating call whose attempt failed, a call pinned to a configured
\* provider, and then a rotating call that goes to another provider than the first
C9_Witness ==
    /\ NActive >= 2
    /\ Len(selLog) = 3
    /\ selLog[1].rotated /\ ~selLog[2].rotated /\ selLog[3].rotated
    /\ ended \cap {"error_provider", "raised"} # {}
    /\ \E f \in Frames : f.tried = <<selLog[3].provider>> /\ f.pc \in {"returned", "raised"}
    /\ selLog[3].provider # selLog[1].provider

----------------------------------------------------------------------------
(* Claims about the queries of the game *)

\* the (callback, result) messages waiting in the hand-off queue
Callbacks == Cardinality({k \in 1..Len(gui_queue) : gui_queue[k].kind = "callback"})

\* the queries dispatched by ask_dm_ai whose callback has not been handled
Outstanding == dispatched - handled

\* nothing is running, queued or being drained
Quiescent == ui = "idle" /\ threads = <<>> /\ gui_queue = <<>>

\* C4: every query dispatched by ask_dm_ai completes: its worker is running, or
\* its one (callback, result) message is in the queue, or the callback has been
\* handled; and when nothing is left to run the input is enabled again unless
\* the game is over.
C4_EveryDispatchedQueryCompletes ==
    /\ Outstanding = Len(threads) + Callbacks
    /\ (Quiescent /\ ~game_over) => input_state = "normal"

\* C10: at most one query worker is in flight: between a dispatch by ask_dm_ai
\* and the handling of its callback no second query is dispatched.
C10_AtMostOneQueryInFlight ==
    /\ Len(threads) <= 1
    /\ Outstanding <= 1
    /\ Len(threads) + Callbacks <= 1

\* a second query is running, dispatched by the player after the callback of
\* the first one was handled, and the input is locked meanwhile
C10_Witness ==
    /\ dispatched = 2
    /\ handled = 1
    /\ Len(threads) = 1
    /\ threads[1].pc = "attempt"
    /\ input_state = "disabled"
    /\ ui = "idle"

----------------------------------------------------------------------------
(* Claims about the threads and the game state *)

\* PlayerState, Inventory, ExchangeHistory and the game-over flag
GameState == <<player_stats, player_inventory, game_context, game_over>>

\* a step taken by a worker thread: a thread moves on or ends, nothing is dispatched
WorkerStep == threads' # threads /\ dispatched' = dispatched /\ ui' # "closed"

\* the queue after the step is the queue before it with messages put at its end
QueueGrows ==
    /\ Len(gui_queue') >= Len(gui_queue)
    /\ SubSeq(gui_queue', 1, Len(gui_queue)) = gui_queue

\* a step of the main thread that runs a handler: initialize_connector, the
\* handler of the message at the head of the queue, or process_player_input
HandlerStep ==
    \/ ui = "startup"
    \/ ui \in {"first_drain", "drain"} /\ gui_queue # <<>> /\ gui_queue' = Tail(gui_queue)
    \/ ui = "idle" /\ entry # <<>> /\ input_state = "normal"

\* C11: a worker thread never writes player_stats, player_inventory,
\* game_context or game_over: all it does is advance the rotation and put
\* messages at the end of the queue; the game state changes only in a handler
\* run by the main thread, which takes the messages from the head of the queue.
C11_OnlyTheUiLoopWritesTheGame ==
    [][/\ WorkerStep =>
            /\ UNCHANGED <<GameState, input_state, entry, save_file, ui, handled,
                           connector, providers, active_providers_list>>
            /\ QueueGrows
       /\ (GameState' # GameState /\ ui' # "closed") =>
            /\ threads' = threads \/ dispatched' = dispatched + 1
            /\ HandlerStep]_vars

\* the worker of the second query has put its callback, the game state is
\* still the one the first callback left, and the UI loop has yet to run
C11_Witness ==
    /\ handled = 1
    /\ Callbacks = 1
    /\ threads = <<>>
    /\ ui = "idle"
    /\ Len(game_context) = Len(InitialContext) + 2

----------------------------------------------------------------------------
(* Claims about the effects of a response *)

\* the UI loop is at the callback of a response
AtResponse ==
    /\ ui \in {"first_drain", "drain"}
    /\ gui_queue # <<>>
    /\ Head(gui_queue).kind = "callback"

\* the step in which the UI loop applies a response
ResponseApplied == AtResponse /\ handled' = handled + 1

\* the effects record of the response the UI loop is at
Effects == extract_and_remove_tags(Head(gui_queue).text).data

\* the level-up threshold that follows T: floor(T * 1.7 + 50)
NextThreshold(T) == (T * 17) \div 10 + 50

\* C12: after the effects of a response have been applied XP < XP_Next_Level:
\* a grant that crosses several thresholds gives all the level-ups at once.
C12_AllLevelUpsInOneResponse ==
    handled >= 1 => player_stats.XP < player_stats.XP_Next_Level

\* C13: a level-up with threshold T happens with XP >= T, and sets Level to
\* Level + 1, XP to XP - T and XP_Next_Level to floor(T * 1.7 + 50), which is
\* greater than T.
C13_LevelUpArithmetic ==
    [][(ResponseApplied /\ player_stats'.Level # player_stats.Level) =>
          LET T == player_stats.XP_Next_Level
              XP == player_stats.XP + Effects.xp
          IN  /\ XP >= T
              /\ player_stats'.Level = player_stats.Level + 1
              /\ player_stats'.XP = XP - T
              /\ player_stats'.XP_Next_Level = NextThreshold(T)
              /\ player_stats'.XP_Next_Level > T]_vars

\* a player at level 2 with 90 XP got 320 XP: level 3, 190 XP left over, and
\* the threshold went from 220 to 424
C13_Witness ==
    /\ handled = 1
    /\ player_stats.Level = 3
    /\ player_stats.XP = 190
    /\ player_stats.XP_Next_Level = 424

\* C14: after the effects of a response have been applied, 0 <= HP <= MaxHP.
C14_HpStaysInRange ==
    handled >= 1 => (0 <= player_stats.HP /\ player_stats.HP <= player_stats.MaxHP)

\* C15 as stated: a response whose heals sum to h > 0, with no damage, applied
\* with HP <= MaxHP sets HP to min(HP + h, MaxHP) and leaves MaxHP unchanged.
C15_HealIsClamped ==
    [][(/\ ResponseApplied
        /\ Effects.heal > 0
        /\ Effects.damage = 0
        /\ player_stats.HP <= player_stats.MaxHP)
       => /\ player_stats'.HP = Min(player_stats.HP + Effects.heal, player_stats.MaxHP)
          /\ player_stats'.HP <= player_stats.MaxHP
          /\ player_stats'.MaxHP = player_stats.MaxHP]_vars

\* C15, amended: the same, for a response that does not level the player up.
C15_HealIsClampedWithoutLevelUp ==
    [][(/\ ResponseApplied
        /\ Effects.heal > 0
        /\ Effects.damage = 0
        /\ player_stats.HP <= player_stats.MaxHP
        /\ ~(Effects.xp > 0 /\ player_stats.XP + Effects.xp >= player_stats.XP_Next_Level))
       => /\ player_stats'.HP = Min(player_stats.HP + Effects.heal, player_stats.MaxHP)
          /\ player_stats'.HP <= player_stats.MaxHP
          /\ player_stats'.MaxHP = player_stats.MaxHP]_vars

\* a level 3 player at 15 of 21 HP was healed twice by 5 and once more: the
\* heal of 15 stopped at MaxHP
C15_Witness ==
    /\ handled = 1
    /\ player_stats.Level = 3
    /\ player_stats.MaxHP = 21
    /\ player_stats.HP = 21
    /\ player_stats.XP = 90
    /\ Last(game_context).text = <<>>

----------------------------------------------------------------------------
(* Claims about the end of the game *)

\* mainloop is running: the main thread is between two handlers
BetweenHandlers == ui \in {"idle", "drain"}

\* C16: between two handlers of the UI loop, HP <= 0 implies that the game is
\* over and the input locked; a response that leaves HP <= 0 ends the game in
\* the handler that applies it, and the input is not enabled again.
C16_DeadMeansGameOver ==
    [][/\ (BetweenHandlers' /\ player_stats'.HP <= 0)
            => (game_over' /\ input_state' = "disabled")
       /\ (ResponseApplied /\ player_stats'.HP <= 0)
            => (game_over' /\ input_state' = "disabled")]_vars

\* the handler of a response has just left the player below 0 HP, and the
\* loop has not yet gone back to idle
C16_Witness ==
    /\ ui = "drain"
    /\ handled >= 1
    /\ player_stats.HP < 0
    /\ game_over
    /\ input_state = "disabled"

\* C17: game_over is absorbing while the process runs: once it is true,
\* nothing changes player_stats, player_inventory or game_context, dispatches
\* a query or resets game_over.
C17_GameOverIsAbsorbing ==
    [][(game_over /\ ui' # "closed") =>
          /\ game_over'
          /\ UNCHANGED <<player_stats, player_inventory, game_context>>
          /\ dispatched' = dispatched]_vars

\* the player saved the game, then died of the second response; the loop is
\* idle and the save of the game in progress is still on disk
C17_Witness ==
    /\ ui = "idle"
    /\ game_over
    /\ handled = 2
    /\ gui_queue = <<>>
    /\ save_file.state = "json"
    /\ LoadOutcome(save_file) = "loaded"
    /\ ~save_file.doc.object.game_over.bool

----------------------------------------------------------------------------
(* Claims about the extraction of the tags *)

\* the text of the response the UI loop is at
ResponseText == Head(gui_queue).text

\* C18: the extraction is idempotent on its output: run again on the clean
\* text it returns the same clean text and an effects record of zeros with no
\* items.
C18_ExtractionIsIdempotent ==
    AtResponse =>
        LET first == extract_and_remove_tags(ResponseText)
            second == extract_and_remove_tags(first.clean)
        IN  /\ second.clean = first.clean
            /\ second.data = NoEffects

\* the positions at which a match of the tag pattern starts, scanning from the
\* left and skipping what an earlier match has taken
MatchStarts(t) ==
    LET start[i \in 1..Len(t)] ==
            /\ MatchEnd(t, i) # 0
            /\ \A j \in 1..(i - 1) : start[j] => MatchEnd(t, j) < i
    IN  {i \in 1..Len(t) : start[i]}

\* the trimmed value of the tag that starts at i
TagValue(t, i) == Strip(SubSeq(t, i + 3, MatchEnd(t, i) - 1))

\* the kind of a tag name, whatever the case of its letters
KindIgnoringCase(tok) ==
    CASE tok \in {"dano", "Dano", "DANO"} -> "damage"
      [] tok \in {"cura", "Cura", "CURA"} -> "heal"
      [] tok \in {"xp", "Xp", "XP"} -> "xp"
      [] tok \in {"item", "Item", "ITEM", "I.TEM"} -> "items"
      [] OTHER -> "none"

\* the kind of a tag name spelled with the letters of the pattern
KindOfName(tok) == IF tok = "I.TEM" THEN "none" ELSE KindIgnoringCase(tok)

\* the integer a tag value stands for; a value that is no integer counts 0
IntegerOf(v) == IF IntParses(v) THEN IntValue(v) ELSE 0

RECURSIVE SumOfTags(_, _)
SumOfTags(t, starts) ==
    IF starts = {} THEN 0
    ELSE LET i == CHOOSE i \in starts : TRUE
         IN  IntegerOf(TagValue(t, i)) + SumOfTags(t, starts \ {i})

\* C19: the extracted damage, heal and xp are the sums of the integer values
\* of the matched tags of each kind, the name taken case-insensitively, and
\* the extracted items are the trimmed values of the matched item tags, one
\* for each tag.
C19_TagsAccumulate ==
    AtResponse =>
        LET t == ResponseText
            data == extract_and_remove_tags(t).data
            of(kind) == {i \in MatchStarts(t) : KindIgnoringCase(t[i + 1]) = kind}
        IN  /\ data.damage = SumOfTags(t, of("damage"))
            /\ data.heal = SumOfTags(t, of("heal"))
            /\ data.xp = SumOfTags(t, of("xp"))
            /\ Len(data.items) = Cardinality(of("items"))
            /\ \A i \in of("items") :
                  Cardinality({k \in 1..Len(data.items) : data.items[k] = TagValue(t, i)})
                  = Cardinality({j \in of("items") : TagValue(t, j) = TagValue(t, i)})

\* the numeric tags of t whose value is no integer
Malformed(t) ==
    {i \in MatchStarts(t) :
        /\ KindOfName(t[i + 1]) \in {"damage", "heal", "xp"}
        /\ ~IntParses(TagValue(t, i))}

\* the positions of t that no match covers
Uncovered(t) ==
    LET starts == MatchStarts(t)
    IN  {k \in 1..Len(t) : \A i \in starts : k < i \/ k > MatchEnd(t, i)}

\* the tokens of t from position k on that stand at a position of keep
RECURSIVE KeepAt(_, _, _)
KeepAt(t, keep, k) ==
    IF k > Len(t) THEN <<>>
    ELSE (IF k \in keep THEN <<t[k]>> ELSE <<>>) \o KeepAt(t, keep, k + 1)

\* t from position k on without the spans of its matches
WithoutSpans(t, k) == KeepAt(t, Uncovered(t), k)

\* C20: a numeric tag whose value is no integer adds nothing and raises
\* nothing: the other tags of the response are counted and applied, its span
\* is removed from the text like every other, and handle_dm_response runs to
\* its end, enabling the input unless the game is over.
C20_MalformedTagIsSkipped ==
    [][(ResponseApplied /\ Malformed(ResponseText) # {}) =>
          LET t == ResponseText
              of(kind) == {i \in MatchStarts(t) : KindOfName(t[i + 1]) = kind}
              damage == SumOfTags(t, of("damage") \ Malformed(t))
              heal == SumOfTags(t, of("heal") \ Malformed(t))
              xp == SumOfTags(t, of("xp") \ Malformed(t))
              hurt == IF damage > 0 THEN player_stats.HP - damage ELSE player_stats.HP
              healed == IF heal > 0 THEN Min(hurt + heal, player_stats.MaxHP) ELSE hurt
              levelled == xp > 0 /\ player_stats.XP + xp >= player_stats.XP_Next_Level
          IN  /\ Effects.damage = damage /\ Effects.heal = heal /\ Effects.xp = xp
              /\ Len(Effects.items) = Cardinality(of("items"))
              /\ ~levelled => player_stats'.HP = healed
              /\ player_stats'.XP =
                    IF levelled THEN player_stats.XP + xp - player_stats.XP_Next_Level
                    ELSE IF xp > 0 THEN player_stats.XP + xp ELSE player_stats.XP
              /\ Len(player_inventory') =
                    Len(player_inventory)
                    + Cardinality({i \in of("items") : TagValue(t, i) # <<>>})
              /\ Last(game_context').text = Strip(WithoutSpans(t, 1))
              /\ game_over' = (player_stats'.HP <= 0)
              /\ input_state' = IF game_over' THEN "disabled" ELSE "normal"]_vars

\* a response with a malformed experience tag, a damage tag and an item tag
\* has been applied to a hurt player: 20 damage, one potion, no experience
C20_Witness ==
    /\ handled = 1
    /\ player_stats.HP = 3 - 20
    /\ player_stats.XP = 0
    /\ player_inventory = << <<"Pocion">> >>
    /\ Last(game_context).text = <<>>
    /\ game_over


----------------------------------------------------------------------------
(* Claims about the commands of the player *)

\* the step in which process_player_input runs the command in the entry
CommandStep(kind) ==
    /\ ui = "idle" /\ ui' = "idle"
    /\ ~game_over
    /\ Strip(entry) # <<>>
    /\ Command(Strip(entry)) = kind
    /\ entry' = <<>>

\* the query of a /usar command: what follows "/usar ", trimmed
UseQuery == Strip(SubSeq(Strip(entry), 3, Len(Strip(entry))))

\* the entries of the inventory whose name holds the query, whatever the case
Matching(q) ==
    {i \in 1..Len(player_inventory) :
        Contains(LowerAll(player_inventory[i]), LowerAll(q))}

\* the first of them, when i is one of them
IsFirstMatching(i, q) == i \in Matching(q) /\ \A j \in Matching(q) : i <= j

\* C21: /usar with a query whose first matching entry is a potion, at
\* HP < MaxHP, raises HP by min(r, MaxHP - HP) for some r in 4..8, so that
\* HP grows and stays at most MaxHP, changes no other stat, and removes that
\* entry and no other: the rest of the inventory keeps its order.
C21_PotionHealsAndIsConsumed ==
    [][CommandStep("usar") =>
          \A i \in 1..Len(player_inventory) :
             (/\ IsFirstMatching(i, UseQuery)
              /\ IsPotion(player_inventory[i])
              /\ player_stats.HP < player_stats.MaxHP)
             => /\ \E r \in 4..8 :
                      player_stats' =
                          [player_stats EXCEPT
                              !.HP = @ + Min(r, player_stats.MaxHP - player_stats.HP)]
                /\ player_stats'.HP > player_stats.HP
                /\ player_stats'.HP <= player_stats.MaxHP
                /\ Len(player_inventory') = Len(player_inventory) - 1
                /\ \A k \in 1..Len(player_inventory') :
                      player_inventory'[k] = player_inventory[IF k < i THEN k ELSE k + 1]]_vars

\* a player at 9 of 15 HP holding a sword, a potion and a sword potion drank
\* the potion by its name, and got 4 HP
C21_Witness ==
    /\ player_stats.HP = 13
    /\ player_inventory = << <<"Espada">>, <<"Espada", " ", "Potion">> >>
    /\ entry = <<>>
    /\ ui = "idle"

\* C22: /usar changes neither the stats nor the inventory when no entry
\* matches the query, when the first matching entry is no potion, or when it
\* is a potion and HP = MaxHP.
C22_UseWithoutEffectChangesNothing ==
    [][(/\ CommandStep("usar")
        /\ \/ Matching(UseQuery) = {}
           \/ \E i \in 1..Len(player_inventory) :
                 /\ IsFirstMatching(i, UseQuery)
                 /\ \/ ~IsPotion(player_inventory[i])
                    \/ player_stats.HP = player_stats.MaxHP)
       => UNCHANGED <<player_stats, player_inventory>>]_vars

\* an unhurt player who holds two potions has typed /usar pocion
C22_Witness ==
    /\ ui = "idle"
    /\ entry = <<"/usar", " ", "pocion">>
    /\ player_stats.HP = player_stats.MaxHP
    /\ player_inventory = << <<"Pocion">>, <<"Pocion">> >>
    /\ ~game_over

----------------------------------------------------------------------------
(* Claims about the save file *)

\* /guardar has written the file: save_game logged no error
SaveWritten == CommandStep("save") /\ gui_queue' = gui_queue

\* the file is a document with the four fields of a save, each of its type
IsSavedGame(file) ==
    /\ file.state = "json"
    /\ IsA(file.doc, "object")
    /\ DOMAIN file.doc.object =
          {"player_stats", "player_inventory", "game_context", "game_over"}
    /\ IsA(file.doc.object.player_stats, "object")
    /\ IsA(file.doc.object.player_inventory, "array")
    /\ IsA(file.doc.object.game_context, "array")
    /\ IsA(file.doc.object.game_over, "bool")
    /\ \A k \in 1..Len(file.doc.object.game_context.array) :
          IsA(file.doc.object.game_context.array[k], "string")

\* the values json.load gives for the four fields of a save
Reads(file) ==
    [stats |-> PyOf(file.doc.object.player_stats),
     inv |-> PyOf(file.doc.object.player_inventory),
     ctx |-> PyOf(file.doc.object.game_context),
     over |-> PyOf(file.doc.object.game_over)]

\* the last 25 entries of a history, all of it when it is shorter
Last25(ctx) ==
    LET n == Min(25, Len(ctx)) IN [k \in 1..n |-> ctx[Len(ctx) - n + k]]

\* C23: /guardar writes a file that reads back as the stats, the inventory
\* and the game-over flag of the moment and the last 25 entries of the
\* history; nothing but a save changes the file; and /cargar on a saved game
\* sets the four globals to exactly what the file reads as.
C23_SaveThenLoadRestores ==
    [][/\ SaveWritten =>
            /\ IsSavedGame(save_file')
            /\ Reads(save_file') =
                  [stats |-> player_stats, inv |-> player_inventory,
                   ctx |-> Last25(game_context), over |-> game_over]
       /\ ~CommandStep("save") => save_file' = save_file
       /\ (CommandStep("load") /\ IsSavedGame(save_file)) =>
            [stats |-> player_stats', inv |-> player_inventory',
             ctx |-> game_context', over |-> game_over'] = Reads(save_file)]_vars

\* a game with the longest history was saved and loaded again: the history
\* is now its last 25 entries, and the messages of load_game wait in the queue
C23_Witness ==
    /\ saves = 1
    /\ ui = "idle"
    /\ Len(gui_queue) = 5
    /\ IsSavedGame(save_file)
    /\ game_context = Last25(History(MaxHistory))
    /\ Reads(save_file).ctx = game_context
    /\ player_stats.HP = 9
    /\ player_inventory = << <<"Pocion">> >>

\* the file cannot be read or parsed, or its player_stats is no mapping, or
\* its player_inventory or game_context is no list
Rejected(file) ==
    \/ file.state = "unparsable"
    \/ /\ file.state = "json"
       /\ \/ ~IsA(file.doc, "object")
          \/ ~IsA(Get(file.doc, "player_stats"), "object")
          \/ ~IsA(Get(file.doc, "player_inventory"), "array")
          \/ ~IsA(Get(file.doc, "game_context"), "array")

\* C24: /cargar on a file that is rejected runs to its end, logs one line and
\* leaves the default new game: the default stats, no item, the history of
\* one opening entry, game_over false.
C24_RejectedFileGivesNewGame ==
    [][(CommandStep("load") /\ Rejected(save_file)) =>
          /\ player_stats' = DEFAULT_PLAYER_STATS
          /\ player_inventory' = <<>>
          /\ game_context' = <<Entry("", <<"Inicio de la Aventura">>)>>
          /\ game_over' = FALSE
          /\ gui_queue' = Append(gui_queue, Log)
          /\ UNCHANGED <<save_file, threads, dispatched>>]_vars

\* the player loaded a file whose player_stats is a list: the game in
\* progress is gone, a new game is in its place
C24_Witness ==
    /\ ui = "idle"
    /\ save_file.state = "json"
    /\ IsA(save_file.doc, "object")
    /\ IsA(Get(save_file.doc, "player_stats"), "array")
    /\ player_stats = DEFAULT_PLAYER_STATS
    /\ player_inventory = <<>>
    /\ game_context = InitialContext
    /\ ~game_over
    /\ gui_queue = <<Log>>

----------------------------------------------------------------------------
(* Claims about the dispatch of the player's input *)

\* the step in which process_player_input takes a non-empty input while the
\* game is not over
InputProcessed ==
    /\ ui = "idle" /\ ui' = "idle"
    /\ ~game_over
    /\ Strip(entry) # <<>>
    /\ entry' = <<>>

\* the commands: /inv, /usar with an argument, /guardar, /cargar, /stats and
\* /ayuda, with their synonyms, in any case
Recognized(input) ==
    LET word == Lower(input[1])
    IN  \/ /\ Len(input) = 1
           /\ word \in {"/inv", "/inventario", "/guardar", "/save", "/cargar",
                        "/load", "/stats", "/hp", "/ayuda", "/help"}
        \/ Len(input) >= 3 /\ word = "/usar" /\ input[2] = " "

\* the history after the step is the history before it with one more entry
EntryAppended ==
    /\ Len(game_context') = Len(game_context) + 1
    /\ SubSeq(game_context', 1, Len(game_context)) = game_context

\* C25: a non-empty input typed while the game is not over either is a
\* command, which starts no query and appends nothing to the history (only
\* /cargar changes it, to the history of the file), or is an action, which
\* appends one entry of the player holding the input and starts one query.
C25_CommandsStayLocalActionsGoToTheDm ==
    [][InputProcessed =>
          IF Recognized(Strip(entry))
          THEN /\ dispatched' = dispatched
               /\ threads' = threads
               /\ ~EntryAppended
               /\ Lower(Strip(entry)[1]) \notin {"/cargar", "/load"}
                     => game_context' = game_context
          ELSE /\ game_context' = Append(game_context, Entry("Jugador", Strip(entry)))
               /\ dispatched' = dispatched + 1
               /\ Len(threads') = Len(threads) + 1]_vars

\* /usar typed without an argument is no command: it went to the DM as the
\* second query of the game
C25_Witness ==
    /\ ui = "idle"
    /\ dispatched = 2
    /\ Len(threads) = 1
    /\ Last(game_context) = Entry("Jugador", <<"/usar">>)
    /\ input_state = "disabled"
    /\ entry = <<>>

----------------------------------------------------------------------------
(* Claims about the startup of the connector *)

\* the provider has its key in the environment and answers the probe
Usable(p) == p \in environ.keys /\ p \in environ.probe_ok

\* the usable providers in the order gemini, deepseek, openai
UsableInOrder ==
    (IF Usable("gemini") THEN <<"gemini">> ELSE <<>>)
    \o (IF Usable("deepseek") THEN <<"deepseek">> ELSE <<>>)
    \o (IF Usable("openai") THEN <<"openai">> ELSE <<>>)

\* C26: whatever keys are present and whatever the probes give, the startup
\* runs to its end, and after it the configured providers are those with a
\* key and a successful probe, the active list holds them in the order
\* gemini, deepseek, openai, and the game has a connector when the list is
\* not empty.
C26_ActiveListIsTheUsableProvidersInOrder ==
    /\ ui = "startup" => ENABLED Startup
    /\ ui # "startup" =>
          /\ active_providers_list = UsableInOrder
          /\ \A p \in Providers : providers[p] = Usable(p)
          /\ connector = (UsableInOrder # <<>>)

\* the three keys are present and the probe of deepseek failed: the startup
\* is over with gemini and openai active, in this order
C26_Witness ==
    /\ ui = "first_drain"
    /\ environ = Environment(Providers, {"gemini", "openai"})
    /\ active_providers_list = <<"gemini", "openai">>
    /\ connector

\* the members of the active list
ActiveSet == {active_providers_list[k] : k \in 1..Len(active_providers_list)}

\* C27: once the connector is built no call of query, whatever it is given
\* and however it ends, changes the active list or a configured flag, and
\* every provider the rotation has selected is a member of the active list.
C27_ActiveSetIsFixedAndRotationStaysInIt ==
    [][/\ UNCHANGED <<providers, active_providers_list>>
       /\ \A k \in 1..Len(selLog') :
             selLog'[k].rotated => selLog'[k].provider \in ActiveSet]_vars

\* four calls later, one of which raised and one of which gave up on a
\* provider error, gemini and openai are still the active providers
C27_Witness ==
    /\ Len(selLog) = MaxCalls
    /\ {"raised", "error_provider", "success"} \subseteq ended
    /\ active_providers_list = <<"gemini", "openai">>
    /\ providers = [p \in Providers |-> p # "deepseek"]
    /\ \E k \in 1..Len(selLog) : selLog[k].rotated /\ selLog[k].provider = "openai"

----------------------------------------------------------------------------
(* Claims about the answers without content *)

\* the answers that carry no text: empty, cut by the filter, or invalid
NoContent == {"empty", "filtered", "malformed"}

\* the placeholder texts of the three providers
Sentinels ==
    { Text(<<"[", "Respuesta bloqueada por seguridad o vacia", "]">>),
      Text(<<"[", "Respuesta invalida o vacia", "]">>),
      Text(<<"[", "Respuesta bloqueada por filtro de contenido", "]">>) }

EndsWithPlaceholder(f, k) ==
    /\ k = Len(f.raws)
    /\ f.pc = "returned"
    /\ f.status = "success"
    /\ f.outcomes[k] = "success"
    /\ f.text \in Sentinels

\* an attempt that ended its call with the fallback of a provider error
EndsWithProviderError(f, k) ==
    /\ k = Len(f.raws)
    /\ f.pc = "returned"
    /\ f.status = "error_provider"
    /\ f.outcomes[k] = "error_provider"
    /\ f.text = _fallback_response(FallbackReason(f.tried[k], "error_provider"))

----------------------------------------------------------------------------
(* Claims about the order of the effects and about the clean text *)

\* C29: the effects of a response are applied as damage, heal, items,
\* experience with level-up, and the game-over test comes last: with damage
\* d > 0 and heal h > 0 the HP is min(HP - d + h, MaxHP) unless a level-up
\* resets it to the new MaxHP, the items are in the inventory, game_over is
\* set exactly when the final HP is 0 or less, and so not when the heal has
\* brought the HP back above 0.
C29_DamageThenHealThenGameOverTest ==
    [][(ResponseApplied /\ Effects.damage > 0 /\ Effects.heal > 0) =>
          LET hurt == player_stats.HP - Effects.damage
              healed == Min(hurt + Effects.heal, player_stats.MaxHP)
              levelled == /\ Effects.xp > 0
                          /\ player_stats.XP + Effects.xp >= player_stats.XP_Next_Level
          IN  /\ ~levelled => player_stats'.HP = healed
              /\ levelled => /\ player_stats'.Level = player_stats.Level + 1
                             /\ player_stats'.HP = player_stats'.MaxHP
              /\ player_inventory' = GrantItems(player_inventory, Effects.items)
              /\ game_over' = (player_stats'.HP <= 0)
              /\ (~levelled /\ hurt <= 0 /\ healed > 0) => ~game_over']_vars

\* a player with 15 HP took damage of 15 or more and a heal in one response:
\* 5 HP are left, the game goes on and the input is enabled
C29_Witness ==
    /\ handled = 1
    /\ player_stats.HP = 5
    /\ ~game_over
    /\ input_state = "normal"

\* C30: the text that extract_and_remove_tags is left with is the response
\* text without the positions its matches cover, no more and no less, and the
\* clean text that goes to game_context is that text trimmed.
C30_CleanTextIsTextWithoutTagSpans ==
    [][ResponseApplied =>
          LET t == ResponseText
              matches == FindIter(t, 1)
              done == ProcessMatches(matches, Len(matches), NoEffects, t)
              plain == WithoutSpans(t, 1)
          IN  /\ Len(done.display) = Cardinality(Uncovered(t))
              /\ done.display = plain
              /\ extract_and_remove_tags(t).clean = Strip(plain)
              /\ Last(game_context').text = Strip(plain)]_vars

\* a response with a word and two experience tags of 1 point has been applied:
\* the word alone is the clean text
C30_Witness ==
    /\ handled = 1
    /\ player_stats.XP \in {2, 92}
    /\ Last(game_context) = Entry("DM", <<"Hola">>)

----------------------------------------------------------------------------
(* Claims about what a level-up changes *)

\* C31: a level-up raises MaxHP by 3 to 6, sets HP to the new MaxHP, raises
\* exactly one of STR and DEX by 1 and leaves the other, the notes and the
\* inventory as they are (the inventory gets the items of the response only).
C31_LevelUpRaisesMaxHpAndOneAttribute ==
    [][(ResponseApplied /\ player_stats'.Level # player_stats.Level) =>
          /\ player_stats'.MaxHP - player_stats.MaxHP \in 3..6
          /\ player_stats'.HP = player_stats'.MaxHP
          /\ \/ /\ player_stats'.STR = player_stats.STR + 1
                /\ player_stats'.DEX = player_stats.DEX
             \/ /\ player_stats'.STR = player_stats.STR
                /\ player_stats'.DEX = player_stats.DEX + 1
          /\ player_stats'.Notas = player_stats.Notas
          /\ player_inventory' = GrantItems(player_inventory, Effects.items)]_vars

\* a new player has reached level 2 with 4 more MaxHP, full HP and one more
\* point of DEX
C31_Witness ==
    /\ handled = 1
    /\ player_stats.Level = 2
    /\ player_stats.MaxHP = 19
    /\ player_stats.HP = 19
    /\ player_stats.STR = 10
    /\ player_stats.DEX = 11
    /\ player_stats.Notas = DEFAULT_PLAYER_STATS.Notas
    /\ player_inventory = <<>>

----------------------------------------------------------------------------
(* Claims about the bounds of the HP *)

\* C32: HP <= MaxHP in every state of a session, whatever responses have been
\* applied (damage, heal, level-up) and whatever items have been used.
C32_HpNeverAboveMaxHp ==
    player_stats.HP <= player_stats.MaxHP

\* the response with a heal of 8 has been applied to a player of level 1 with
\* 9 or 15 HP: the HP stand at MaxHP, not above
C32_Witness ==
    /\ handled >= 1
    /\ Last(game_context) = Entry("DM", <<"Descansas">>)
    /\ player_stats.Level = 1
    /\ player_stats.MaxHP = 15
    /\ player_stats.HP = 15

----------------------------------------------------------------------------
(* Claims about a lethal damage and a level-up in one response *)

\* the response the UI loop is at brings the HP to 0 or below by its damage
\* and the XP to the threshold or beyond by its experience
LethalDamageAndLevelUp ==
    /\ AtResponse
    /\ ~game_over
    /\ Effects.damage > 0
    /\ player_stats.HP - Effects.damage <= 0
    /\ Effects.xp > 0
    /\ player_stats.XP + Effects.xp >= player_stats.XP_Next_Level

\* C33: a response whose damage brings HP to 0 or below and whose experience
\* gives a level-up does not end the game: the full heal of the level-up comes
\* before the game-over test, game_over stays false and the input is enabled.
C33_LevelUpHealComesBeforeGameOverTest ==
    [][(ResponseApplied /\ LethalDamageAndLevelUp) =>
          /\ player_stats'.Level = player_stats.Level + 1
          /\ player_stats'.HP = player_stats'.MaxHP
          /\ player_stats'.HP > 0
          /\ ~game_over'
          /\ input_state' = "normal"]_vars

\* a player with 3 HP is at a response with 20 damage and 320 XP, and
\* handle_dm_response leaves a player of level 2 with full HP in a game that
\* goes on
C33_Witness ==
    /\ LethalDamageAndLevelUp
    /\ player_stats.HP = 3
    /\ player_stats.Level = 1
    /\ Effects.damage = 20
    /\ Effects.xp = 320
    /\ LET after == handle_dm_response(Game, ResponseText, 3, "STR")
       IN  /\ after.stats.Level = 2
           /\ after.stats.HP = 18
           /\ ~after.over
           /\ after.input = "normal"

----------------------------------------------------------------------------
(* Claims about the order of the granted items *)

\* the item tags of t that grant something: the name spelled with the letters
\* of the pattern, the value not empty
Granting(t) ==
    {i \in MatchStarts(t) : KindOfName(t[i + 1]) = "items" /\ TagValue(t, i) # <<>>}

\* the values of the tags that start at the positions of starts, the
\* rightmost first
RECURSIVE RightmostFirst(_, _)
RightmostFirst(t, starts) ==
    IF starts = {} THEN <<>>
    ELSE LET i == CHOOSE i \in starts : \A j \in starts : j <= i
         IN  <<TagValue(t, i)>> \o RightmostFirst(t, starts \ {i})

\* C34: the items of one response are appended to the inventory in reverse
\* textual order, the item of the rightmost tag first, after the entries the
\* inventory held.
C34_ItemsAppendedRightmostFirst ==
    [][ResponseApplied =>
          player_inventory' =
              player_inventory \o RightmostFirst(ResponseText, Granting(ResponseText))]_vars

\* a response with two item tags and a word has been applied to a player who
\* held a dagger: the inventory holds the dagger, then the two new items
C34_Witness ==
    /\ handled = 1
    /\ player_inventory = << <<"Daga">>, <<"Llave">>, <<"Pocion">> >>
    /\ Last(game_context) = Entry("DM", <<"Hola">>)

----------------------------------------------------------------------------
(* Claims about sums that are zero or negative *)

\* the sum of the values of the tags of t of one kind among those that start
\* at the positions of starts, negative values included
SumOfKind(t, starts, kind) ==
    SumOfTags(t, {i \in starts : KindOfName(t[i + 1]) = kind})

\* C35: a kind (damage, heal, experience) whose values sum to zero or less has
\* no effect: a negative damage does not heal, a negative heal does not hurt,
\* a negative experience takes no XP; the sum is taken over all the tags of
\* the kind, so a negative value does cancel positive ones of its kind.
C35_NonPositiveSumsHaveNoEffect ==
    [][ResponseApplied =>
          LET t == ResponseText
              starts == MatchStarts(t)
              damage == SumOfKind(t, starts, "damage")
              heal == SumOfKind(t, starts, "heal")
              xp == SumOfKind(t, starts, "xp")
              hurt == IF damage > 0 THEN player_stats.HP - damage ELSE player_stats.HP
              healed == IF heal > 0 THEN Min(hurt + heal, player_stats.MaxHP) ELSE hurt
          IN  /\ Effects.damage = damage /\ Effects.heal = heal /\ Effects.xp = xp
              /\ xp <= 0 => /\ player_stats'.XP = player_stats.XP
                            /\ player_stats'.Level = player_stats.Level
                            /\ player_stats'.MaxHP = player_stats.MaxHP
                            /\ player_stats'.HP = healed
              /\ (xp <= 0 /\ damage <= 0) => player_stats'.HP >= player_stats.HP
              /\ (xp <= 0 /\ heal <= 0) => player_stats'.HP <= player_stats.HP
              /\ (xp <= 0 /\ damage <= 0 /\ heal <= 0) => player_stats' = player_stats
              /\ xp > 0 => player_stats'.XP + player_stats.XP_Next_Level * (player_stats'.Level - player_stats.Level)
                              = player_stats.XP + xp]_vars

\* a response with an experience tag of 5 and one of -1 has been applied:
\* 4 XP were added
C35_Witness ==
    /\ handled = 1
    /\ player_stats.XP \in {4, 94}

----------------------------------------------------------------------------
(* Claims about the game without a provider *)

\* the connector is kept exactly when a provider is active
ConnectorKeptIffActive ==
    ui \notin {"startup", "closed"} => (connector <=> active_providers_list # <<>>)

\* without a connector every worker is before its check of the connector or
\* holds the offline reply, every callback carries the offline reply, and
\* every action dispatched is in a worker, in the queue or handled
OfflineWorkersGiveOneReply ==
    ~connector =>
        /\ \A i \in 1..Len(threads) :
              /\ threads[i].pc \in {"task", "put"}
              /\ threads[i].pc = "put" => threads[i].result = OfflineReply
        /\ \A k \in 1..Len(gui_queue) :
              gui_queue[k].kind = "callback" => gui_queue[k].text = OfflineReply
        /\ dispatched = handled + Callbacks + Len(threads)

\* the offline reply is handled: a DM entry, no change of the player, input
\* enabled
OfflineReplyHandled ==
    (ResponseApplied /\ ~connector) =>
        /\ game_context' = Append(game_context, Entry("DM", OfflineReply))
        /\ player_stats' = player_stats
        /\ player_inventory' = player_inventory
        /\ ~game_over /\ ~game_over'
        /\ input_state' = "normal"

\* C36: without an active provider the game keeps no connector, and every
\* action it dispatches completes: its worker puts exactly one callback, with
\* the offline reply, and the UI loop handles it, appending a DM entry to the
\* history, leaving player_stats and player_inventory as they are and
\* enabling the input.
C36_OfflineActionsComplete ==
    /\ [](ConnectorKeptIffActive /\ OfflineWorkersGiveOneReply)
    /\ [][OfflineReplyHandled]_vars
    /\ (~connector /\ dispatched > handled) ~> (dispatched = handled)

\* a game without providers has handled the offline reply to the player's
\* action: the history ends with the action and the reply, the input is enabled
C36_Witness ==
    /\ ui = "idle"
    /\ ~connector
    /\ active_providers_list = <<>>
    /\ handled = 2
    /\ dispatched = 2
    /\ threads = <<>>
    /\ game_context[Len(game_context) - 1] = Entry("Jugador", <<"ataco">>)
    /\ Last(game_context) = Entry("DM", OfflineReply)
    /\ player_stats = DEFAULT_PLAYER_STATS
    /\ input_state = "normal"

----------------------------------------------------------------------------
(* Claims about /cargar without a save file *)

========================================================================
